---- MODULE Spec2Model ----
(***************************************************************************)
(* Glint: bounded-concurrency RSS -> article -> summary pipeline.          *)
(*                                                                         *)
(* The module models                                                       *)
(*   - parallelLimit, the bounded concurrency executor,                    *)
(*     at the granularity of the JavaScript event loop: a synchronous      *)
(*     segment of the loop is one step, every promise settlement and every *)
(*     resumption after an await is a step of its own;                     *)
(*   - ArticleCache over a file-per-key storage and a clock;               *)
(*   - the feed fetcher, the article scraper and main's pipeline.          *)
(***************************************************************************)
EXTENDS Integers, Sequences, FiniteSets, TLC

\* ------------------------------------------------------------------------
\* Bounds of the model
\* ------------------------------------------------------------------------
MaxItems == 3
MaxLimit == 3
MaxFeeds == 3
MaxArticles == 2
MaxGroupArts == 3
MaxCleanupRuns == 2
MaxFeedLimit == 2
MaxWriters == 2
MaxCalls == 2

\* ------------------------------------------------------------------------
\* State
\* ------------------------------------------------------------------------
VARIABLES
  kind,        \* which transform the executor runs ("generic", ...)
  items,       \* parallelLimit: the input list
  limit,       \* parallelLimit: the concurrency limit
  pc,          \* parallelLimit: "idle", "race", "all", "returned", "thrown"
  i,           \* parallelLimit: the loop index (1-based)
  fnp,         \* fn(items[k]): "unstarted", "pending", "fulfilled", "rejected"
  fnval,       \* the value fn(items[k]) was fulfilled with
  prom,        \* the chain of k: "none", "pending", "then", "finally", "fulfilled", "rejected"
  results,     \* parallelLimit: the pre-sized result array (Hole = empty slot)
  executing,   \* parallelLimit: the set of chained promises still executing
  awaitSet,    \* the promises handed to the pending Promise.race / Promise.all
  awaited,     \* the awaited promise: "none", "pending", "fulfilled", "rejected"
  settled,     \* the inputs in the order in which their chained promises settled
  job          \* per input: how far its transform is and what its environment answered

VARIABLES
  now,         \* the clock, Date.now() in milliseconds
  dir,         \* whether the cache directory exists
  files,       \* the cache directory: file name -> content (Absent = no such file)
  last,        \* the cache / scraper call that returned last
  calls        \* the cache / scraper calls made, in the order of the calls

VARIABLES
  feedLimit    \* fetchAllFeeds: the per-feed item limit

VARIABLES
  mpc,         \* main: "init", the stage awaited, "global", "openGlobal", "writeGlobal",
               \* "closeGlobal", "done" (main returned), "failed" (main rejected)
  allArticles, \* main: the articles found in the feeds, {url, title, feedUrl}
  summaries,   \* main: sourceSummariesWithContent
  hist,        \* per stage: whether invoked, and its calls in all, started, settled, failed
  sourcesData, \* main: the source groups handed to the per-source stage
  globalInput, \* main: the sections handed to the global generation call
  written      \* the review directory: its files, {path, content}

VARIABLES
  arg,         \* the input of a function studied on its own
  out          \* its output

plVars == <<kind, items, limit, pc, i, fnp, fnval, prom, results, executing,
            awaitSet, awaited, settled>>
jobVars == <<job, feedLimit>>
cacheVars == <<now, dir, files, last, calls>>
mainVars == <<mpc, allArticles, summaries, sourcesData, globalInput, written, hist>>
funVars == <<arg, out>>

vars == <<plVars, jobVars, cacheVars, mainVars, funVars>>

\* An empty slot of the result array; the value of a promise not fulfilled.
Hole == [t |-> "hole"]
NoVal == [t |-> "none"]

\* No file, and no text.
Absent == [t |-> "absent"]
EmptyText == <<>>

\* The record of a call of the cache or of the scraper: its arguments, the
\* step it is at, what it has read so far, and its outcome once it has
\* returned (step "done").
\*   before     the files of the cache when the call was made
\*   at         the clock the call read (get, cleanup)
\*   read       the content its readFile read (Absent: the read failed)
\*   timestamp  of the entry served (get) or written (set)
\*   linked     whether the file the call has opened still has its name
\*   todo       cleanup: the files of the listing not yet examined
\*   alone      no other call was pending at any moment of the call
\*   how, tries, parsed   kept of a transform of a batch
\*   res        the response fetch resolved with, until its body is read
NoParse == [ok |-> FALSE, items |-> <<>>]
NoRes == [k |-> "none"]
NoCall == [op |-> "none", url |-> "", step |-> "done", before |-> <<>>,
           at |-> 0, threw |-> FALSE, hit |-> FALSE, text |-> EmptyText,
           timestamp |-> 0, stored |-> FALSE, net |-> "none", scraped |-> EmptyText,
           failing |-> {}, removed |-> {}, read |-> Absent, linked |-> TRUE,
           todo |-> <<>>, alone |-> TRUE, how |-> "none", tries |-> 0,
           parsed |-> NoParse, res |-> NoRes]

GetCall(url) == [NoCall EXCEPT !.op = "get", !.url = url, !.step = "read"]
SetCall(url, text) == [NoCall EXCEPT !.op = "set", !.url = url, !.text = text, !.step = "mkdir"]
CleanupCall == [NoCall EXCEPT !.op = "cleanup", !.step = "readdir"]
ScrapeCall(url) == [NoCall EXCEPT !.op = "fetchArticleText", !.url = url, !.step = "read"]

\* A transform that has not consulted its environment yet; the transform of
\* fetchAllArticles is a call of fetchArticleText.
NoJob == [NoCall EXCEPT !.step = "get"]
StartJob(knd, item) == IF knd = "articles" THEN ScrapeCall(item) ELSE NoJob

\* ------------------------------------------------------------------------
\* parallelLimit
\* ------------------------------------------------------------------------
\* The generic transform's inputs and the value it produces for an input.
Values == {"x", "y"}
Fn(item) == [t |-> "fn", of |-> item]

RECURSIVE SeqsUpTo(_, _)
SeqsUpTo(S, n) ==
  IF n = 0 THEN {<<>>}
  ELSE LET shorter == SeqsUpTo(S, n - 1)
       IN shorter \cup {Append(s, x) : s \in {t \in shorter : Len(t) = n - 1}, x \in S}

\* `if (executing.size >= limit)`
LimitReachedOff(size, lim) == size > lim
LimitReached(size, lim) == size >= lim

\* The for loop from index k on, run until it suspends: each iteration starts
\* fn(items[k]) and adds its chained promise to `executing`; the loop suspends
\* at `await Promise.race` once the limit is reached, or leaves the loop and
\* suspends at `await Promise.all`.
RECURSIVE RunLoop(_, _, _, _)
RunLoop(k, ex, n, lim) ==
  IF k > n THEN [i |-> k, executing |-> ex, pc |-> "all"]
  ELSE LET ex1 == ex \cup {k}
       IN IF LimitReached(Cardinality(ex1), lim)
          THEN [i |-> k, executing |-> ex1, pc |-> "race"]
          ELSE RunLoop(k + 1, ex1, n, lim)

\* The synchronous segment of parallelLimit that starts at loop index k.
Segment(k, its, lim) ==
  LET r == RunLoop(k, executing, Len(its), lim)
      started == r.executing \ executing
  IN /\ i' = r.i
     /\ pc' = r.pc
     /\ executing' = r.executing
     /\ fnp' = [j \in 1..Len(its) |->
                  IF j \in started THEN "pending"
                  ELSE IF k = 1 THEN "unstarted" ELSE fnp[j]]
     /\ prom' = [j \in 1..Len(its) |->
                  IF j \in started THEN "pending"
                  ELSE IF k = 1 THEN "none" ELSE prom[j]]
     /\ awaitSet' = r.executing
     \* Promise.race of a non-empty set of pending promises is pending;
     \* Promise.all of an empty set is fulfilled.
     /\ awaited' = IF r.pc = "all" /\ r.executing = {} THEN "fulfilled" ELSE "pending"

\* parallelLimit(its, fn, lim): the call, up to its first await.
PLInvoke(its, lim, knd) ==
  /\ kind' = knd
  /\ items' = its
  /\ limit' = lim
  /\ results' = [j \in 1..Len(its) |-> Hole]
  /\ fnval' = [j \in 1..Len(its) |-> NoVal]
  /\ settled' = <<>>
  /\ job' = [j \in 1..Len(its) |-> StartJob(knd, its[j])]
  /\ Segment(1, its, lim)

\* `.then(result => { results[i] = result; })`
ThenCallbackPush(res, k, v) ==
  LET free == {j \in DOMAIN res : res[j] = Hole}
      slot == CHOOSE j \in free : \A m \in free : j <= m
  IN [res EXCEPT ![slot] = v]
ThenCallback(res, k, v) == [res EXCEPT ![k] = v]

\* `.finally(() => { executing.delete(promise); })`
FinallyCallback(ex, k) == ex \ {k}

\* Promise.race(set): settles as the first promise of the set that settles.
RaceOutcomeDeaf(outcome) == "pending"
RaceOutcome(outcome) == outcome

\* Promise.all(set): rejected by the first rejection, fulfilled once every
\* promise of the set is fulfilled.
AllOutcomeEager(set, p, k, outcome) ==
  IF outcome = "rejected" THEN "rejected" ELSE "fulfilled"
AllOutcomeNever(set, p, k, outcome) == "pending"
AllOutcome(set, p, k, outcome) ==
  IF outcome = "rejected" THEN "rejected"
  ELSE IF \A j \in set \ {k} : p[j] = "fulfilled" THEN "fulfilled"
  ELSE "pending"

\* The chain fn(items[k]).then(...).finally(...) runs as jobs of the
\* microtask queue, between which the jobs of other promises and the
\* resumption of the loop can run.  prom[k] tells how far the chain is:
\* "pending" (no job has run), "then", "finally", and at last the state in
\* which the chained promise settled.
Unsettled(k) == prom[k] \in {"pending", "then", "finally"}

\* The then job: on fulfilment the callback stores the result; a rejection
\* passes through.
ThenJob(k) ==
  /\ k \in DOMAIN prom
  /\ prom[k] = "pending"
  /\ fnp[k] \in {"fulfilled", "rejected"}
  /\ results' = IF fnp[k] = "fulfilled" THEN ThenCallback(results, k, fnval[k])
                ELSE results
  /\ prom' = [prom EXCEPT ![k] = "then"]
  /\ UNCHANGED <<kind, items, limit, pc, i, fnp, fnval, executing, awaitSet, awaited,
                 settled>>

\* The finally job: the callback removes the promise from `executing`.
FinallyJob(k) ==
  /\ k \in DOMAIN prom
  /\ prom[k] = "then"
  /\ executing' = FinallyCallback(executing, k)
  /\ prom' = [prom EXCEPT ![k] = "finally"]
  /\ UNCHANGED <<kind, items, limit, pc, i, fnp, fnval, results, awaitSet, awaited,
                 settled>>

\* The chained promise of k settles as fn(items[k]) did.  The reaction of a
\* race / all that holds the promise is a later job.
ChainSettle(k) ==
  /\ k \in DOMAIN prom
  /\ prom[k] = "finally"
  /\ prom' = [prom EXCEPT ![k] = fnp[k]]
  /\ settled' = Append(settled, k)
  /\ UNCHANGED <<kind, items, limit, pc, i, fnp, fnval, results, executing, awaitSet,
                 awaited>>

\* The chained promise of j settled before that of k did.
SettledBefore(j, k) ==
  \E a, b \in DOMAIN settled : a < b /\ settled[a] = j /\ settled[b] = k

\* The job in which the pending Promise.race / Promise.all reacts to the
\* settlement of the chained promise of k.  The reactions run in the order in
\* which the promises settled: the race is settled by the first of them, the
\* all by the first that reacts to a rejection or by the last of all.  (A
\* reaction that leaves the awaited promise pending, or finds it settled,
\* changes nothing.)
Reaction(k) ==
  /\ pc \in {"race", "all"}
  /\ awaited = "pending"
  /\ k \in awaitSet
  /\ prom[k] \in {"fulfilled", "rejected"}
  /\ \A j \in awaitSet : SettledBefore(j, k) => (pc = "all" /\ prom[j] = "fulfilled")
  /\ awaited' = IF pc = "race" THEN RaceOutcome(prom[k])
                ELSE AllOutcome(awaitSet, prom, k, prom[k])
  /\ UNCHANGED <<kind, items, limit, pc, i, fnp, fnval, prom, results, executing,
                 awaitSet, settled>>

\* The loop resumes after `await Promise.race(executing)`.
ResumeRace ==
  /\ pc = "race"
  /\ awaited = "fulfilled"
  /\ Segment(i + 1, items, limit)
  /\ UNCHANGED <<kind, items, limit, fnval, results, settled>>

\* parallelLimit returns after `await Promise.all(executing)`.
ResumeAll ==
  /\ pc = "all"
  /\ awaited = "fulfilled"
  /\ pc' = "returned"
  /\ awaited' = "none"
  /\ UNCHANGED <<kind, items, limit, i, fnp, fnval, prom, results, executing, awaitSet, settled>>

\* The awaited race / all rejected: parallelLimit throws.
ThrowCaughtInLoop ==
  /\ pc \in {"race", "all"}
  /\ awaited = "rejected"
  /\ Segment(i + 1, items, limit)
  /\ UNCHANGED <<kind, items, limit, fnval, results, settled>>
Throw ==
  /\ pc \in {"race", "all"}
  /\ awaited = "rejected"
  /\ pc' = "thrown"
  /\ awaited' = "none"
  /\ UNCHANGED <<kind, items, limit, i, fnp, fnval, prom, results, executing, awaitSet, settled>>

\* The generic transform of input k settles.
FnFulfil(k) ==
  /\ kind = "generic"
  /\ k \in DOMAIN fnp
  /\ fnp[k] = "pending"
  /\ fnp' = [fnp EXCEPT ![k] = "fulfilled"]
  /\ fnval' = [fnval EXCEPT ![k] = Fn(items[k])]
  /\ UNCHANGED <<kind, items, limit, pc, i, prom, results, executing, awaitSet, awaited, settled>>

FnReject(k) ==
  /\ kind = "generic"
  /\ k \in DOMAIN fnp
  /\ fnp[k] = "pending"
  /\ fnp' = [fnp EXCEPT ![k] = "rejected"]
  /\ UNCHANGED <<kind, items, limit, pc, i, fnval, prom, results, executing, awaitSet, awaited, settled>>

\* ------------------------------------------------------------------------
\* Texts
\* ------------------------------------------------------------------------
\* A string is kept run-length encoded: a sequence of runs [c, n], the
\* character c repeated n >= 1 times, neighbouring runs of different
\* characters.  " " stands for any whitespace character.
Run(c, n) == [c |-> c, n |-> n]

RECURSIVE StrLen(_)
StrLen(s) == IF s = <<>> THEN 0 ELSE Head(s).n + StrLen(Tail(s))

\* String.prototype.trim
RECURSIVE TrimStart(_)
TrimStart(s) ==
  IF s = <<>> THEN s
  ELSE IF Head(s).c = " " THEN TrimStart(Tail(s)) ELSE s

RECURSIVE TrimEnd(_)
TrimEnd(s) ==
  IF s = <<>> THEN s
  ELSE IF s[Len(s)].c = " " THEN TrimEnd(SubSeq(s, 1, Len(s) - 1)) ELSE s

Trim(s) == TrimEnd(TrimStart(s))

\* `.replace(/\s+/g, " ")`
CollapseWhitespace(s) ==
  [k \in 1..Len(s) |-> IF s[k].c = " " THEN Run(" ", 1) ELSE s[k]]

\* `.slice(0, m)`
RECURSIVE Slice(_, _)
Slice(s, m) ==
  IF s = <<>> \/ m <= 0 THEN <<>>
  ELSE IF Head(s).n >= m THEN <<Run(Head(s).c, m)>>
  ELSE <<Head(s)>> \o Slice(Tail(s), m - Head(s).n)

\* ------------------------------------------------------------------------
\* ArticleCache
\* ------------------------------------------------------------------------
\* `6 * 60 * 60 * 1000` and `24 * 60 * 60 * 1000`
FRESH == 6 * 60 * 60 * 1000
RetainOneHour == 60 * 60 * 1000
RETAIN == 24 * 60 * 60 * 1000

Urls == {"a1", "a2"}

\* hash(url) and getCachePath(url): the MD5 digest names the file; distinct
\* urls of the model have distinct digests.
Hash(url) == <<"md5", url>>
GetCachePath(url) == <<Hash(url), ".json">>
FileNames == {GetCachePath(u) : u \in Urls}

\* ------------------------------------------------------------------------
\* Bytes
\* ------------------------------------------------------------------------
\* The content of a file is a string of bytes.  It is kept as a sequence of
\* runs (Run(c, n), as in a text: a character of the model is one byte) and
\* of parts: Part(s, a, b) is the bytes a .. b - 1 of the string s, s being
\* a literal of the output of JSON.stringify or a markdown text known by its
\* name and its length.  Neighbours that can be one run or one part are one.
Part(s, a, b) == [of |-> s, from |-> a, to |-> b]
Lit(s) == [t |-> "lit", s |-> s]
IsRun(g) == "c" \in DOMAIN g
SegLen(g) == IF IsRun(g) THEN g.n ELSE g.to - g.from

RECURSIVE Size(_)
Size(b) == IF b = <<>> THEN 0 ELSE SegLen(Head(b)) + Size(Tail(b))

\* A value computed once and named: The({e(x) : x \in {v}}) is e(v).
The(S) == CHOOSE v \in S : TRUE

\* a .. b, the concatenation of two strings of bytes
Join(p, q) ==
  The({IF a = <<>> THEN b
       ELSE IF b = <<>> THEN a
       ELSE The({IF IsRun(x) /\ IsRun(y)
                 THEN IF x.c = y.c
                      THEN SubSeq(a, 1, Len(a) - 1) \o <<Run(x.c, x.n + y.n)>> \o Tail(b)
                      ELSE a \o b
                 ELSE IF ~IsRun(x) /\ ~IsRun(y)
                 THEN IF x.of = y.of /\ x.to = y.from
                      THEN SubSeq(a, 1, Len(a) - 1) \o <<Part(x.of, x.from, y.to)>> \o Tail(b)
                      ELSE a \o b
                 ELSE a \o b
                 : x \in {a[Len(a)]}, y \in {Head(b)}})
       : a \in {p}, b \in {q}})

\* The first n bytes of a string of bytes, and the bytes after them.
RECURSIVE Take(_, _)
Take(b, n) ==
  IF b = <<>> \/ n <= 0 THEN <<>>
  ELSE LET g == Head(b)
       IN IF SegLen(g) <= n THEN <<g>> \o Take(Tail(b), n - SegLen(g))
          ELSE IF IsRun(g) THEN <<Run(g.c, n)>>
          ELSE <<Part(g.of, g.from, g.from + n)>>

RECURSIVE Drop(_, _)
Drop(b, n) ==
  IF b = <<>> \/ n <= 0 THEN b
  ELSE LET g == Head(b)
       IN IF SegLen(g) <= n THEN Drop(Tail(b), n - SegLen(g))
          ELSE IF IsRun(g) THEN <<Run(g.c, g.n - n)>> \o Tail(b)
          ELSE <<Part(g.of, g.from + n, g.to)>> \o Tail(b)

\* The runs of a sequence of characters.
RECURSIVE Runs(_)
Runs(cs) == IF cs = <<>> THEN <<>> ELSE Join(<<Run(Head(cs), 1)>>, Runs(Tail(cs)))

\* The literals of JSON.stringify({ text, timestamp }): `{"text":"` (9 bytes)
\* and `","timestamp":` (14 bytes), and the characters of a literal.
OpenText == Lit("{\"text\":\"")
OpenStamp == Lit("\",\"timestamp\":")
TextKey == <<"t", "e", "x", "t">>
StampKey == <<"t", "i", "m", "e", "s", "t", "a", "m", "p">>
LitChars(s) ==
  IF s = OpenText THEN <<"{", "\"">> \o TextKey \o <<"\"", ":", "\"">>
  ELSE IF s = OpenStamp THEN <<"\"", ",", "\"">> \o StampKey \o <<"\"", ":">>
  ELSE <<>>
Whole(s) == Part(s, 0, Len(LitChars(s)))
\* the runs of the literals and of the keys, computed once
LitRuns == [s \in {OpenText, OpenStamp} |-> Runs(LitChars(s))]
KeyRuns == [key \in {TextKey, StampKey} |-> Runs(key)]

\* Date.now(): the clock of the model counts the milliseconds since the
\* instant 1 700 000 000 000, so that a timestamp is written with 13 digits:
\* 17000 and the 8 digits of the clock.
DigitChars == <<"0", "1", "2", "3", "4", "5", "6", "7", "8", "9">>
IsDigit(c) == \E d \in 1..10 : DigitChars[d] = c
DigitValue(c) == (CHOOSE d \in 1..10 : DigitChars[d] = c) - 1
EpochDigits == <<1, 7, 0, 0, 0>>
ClockDigits == 8
DecimalDigits(t) ==
  Runs([k \in 1..(Len(EpochDigits) + ClockDigits) |->
          DigitChars[1 + (IF k <= Len(EpochDigits) THEN EpochDigits[k]
                          ELSE (t \div 10^(Len(EpochDigits) + ClockDigits - k)) % 10)]])

\* The instants at which the clock of the model is read: they put an entry
\* written at 0 or 1 at the ages FRESH - 1, FRESH, RETAIN and RETAIN + 1.
Instants == {0, 1, FRESH, RETAIN + 1}

\* An age past the freshness window and within the retention window.
SevenHours == 7*60*60*1000

\* String(timestamp); the strings of the instants are computed once.
InstantStrings == [t \in Instants \cup {SevenHours} |-> DecimalDigits(t)]
NumberToString(t) ==
  IF t \in DOMAIN InstantStrings THEN InstantStrings[t] ELSE DecimalDigits(t)

\* File contents: no file, a file whose read fails, or bytes.
Bytes(b) == [t |-> "bytes", b |-> b]
Unreadable == [t |-> "unreadable"]    \* a file whose read fails
Garbage == Bytes(<<Run("<", 1)>>)     \* bytes that are not JSON, left by an earlier run
Truncated == Bytes(<<>>)
ByteLen(content) == IF content.t = "bytes" THEN Size(content.b) ELSE 0

\* JSON.stringify({ text, timestamp }), as writeFile encodes it.  The texts of
\* the model hold no character that JSON.stringify escapes, and their white
\* space is the space.
JSONStringify(data) ==
  Bytes(Join(Join(<<Whole(OpenText)>>, data.text),
             Join(Join(<<Whole(OpenStamp)>>, NumberToString(data.timestamp)),
                  <<Run("}", 1)>>)))

\* The characters of a string of bytes, as runs; "#" stands for the
\* characters of a markdown text.
RECURSIVE Chars(_)
Chars(b) ==
  IF b = <<>> THEN <<>>
  ELSE LET g == Head(b)
       IN Join(IF IsRun(g) THEN <<g>>
               ELSE IF g.of.t = "lit"
               THEN Take(Drop(LitRuns[g.of], g.from), g.to - g.from)
               ELSE <<Run("#", g.to - g.from)>>,
               Chars(Tail(b)))

\* JSON.parse, reading the characters from left to right: white space is
\* skipped between the tokens; a string ends at the next `"`; a number is a
\* run of digits with no leading zero.
Peek(s) == IF s = <<>> THEN "" ELSE Head(s).c
Pop(s) == IF Head(s).n = 1 THEN Tail(s) ELSE <<Run(Head(s).c, Head(s).n - 1)>> \o Tail(s)
SkipSpace(s) == IF Peek(s) = " " THEN Tail(s) ELSE s
SyntaxError == [ok |-> FALSE, val |-> <<>>, rest |-> <<>>]

\* a string, the opening `"` read: the characters up to the closing `"`
RECURSIVE ParseString(_, _)
ParseString(s, acc) ==
  IF s = <<>> THEN SyntaxError
  ELSE IF Head(s).c = "\"" THEN [ok |-> TRUE, val |-> acc, rest |-> Pop(s)]
  ELSE ParseString(Tail(s), Append(acc, Head(s)))

\* The digits at the head of s, and what follows them.
RECURSIVE LeadingDigits(_)
LeadingDigits(s) ==
  IF s = <<>> \/ ~IsDigit(Peek(s)) THEN <<>>
  ELSE [k \in 1..Head(s).n |-> DigitValue(Head(s).c)] \o LeadingDigits(Tail(s))
RECURSIVE AfterDigits(_)
AfterDigits(s) == IF s = <<>> \/ ~IsDigit(Peek(s)) THEN s ELSE AfterDigits(Tail(s))

\* The value of a number written with the digits ds, on the clock of the
\* model.  A number 200 000 000 ms or more away from the instant 0 of the
\* clock is kept as Far or -Far, which compares with the instants of the
\* model as the number does.
Far == 10^9
RECURSIVE Decimal(_)
Decimal(ds) == IF ds = <<>> THEN 0 ELSE 10 * Decimal(SubSeq(ds, 1, Len(ds) - 1)) + ds[Len(ds)]
NumberValue(ds) ==
  LET width == Len(EpochDigits) + ClockDigits
  IN IF Len(ds) < width THEN -Far
     ELSE IF Len(ds) > width THEN Far
     ELSE LET off == Decimal(SubSeq(ds, 1, Len(EpochDigits))) - Decimal(EpochDigits)
          IN IF off > 1 THEN Far
             ELSE IF off < -2 THEN -Far
             ELSE off * 10^ClockDigits + Decimal(SubSeq(ds, Len(EpochDigits) + 1, width))

\* a value: a string or a number (the bytes of the model hold no other)
ParseValue(s) ==
  IF Peek(s) = "\""
  THEN The({[ok |-> r.ok, val |-> [t |-> "string", s |-> r.val], rest |-> r.rest]
            : r \in {ParseString(Pop(s), <<>>)}})
  ELSE The({IF ds = <<>> \/ (Len(ds) > 1 /\ ds[1] = 0) THEN SyntaxError
            ELSE [ok |-> TRUE, val |-> [t |-> "number", n |-> NumberValue(ds)],
                  rest |-> AfterDigits(s)]
            : ds \in {LeadingDigits(s)}})

\* the members of an object, the `{` read: `"key":value` separated by commas,
\* up to the `}` that ends the document
RECURSIVE ParseMembers(_, _)
ParseMembers(s, acc) ==
  IF Peek(s) # "\"" THEN SyntaxError
  ELSE The({IF ~k.ok \/ Peek(SkipSpace(k.rest)) # ":" THEN SyntaxError
            ELSE The({IF ~v.ok THEN SyntaxError
                      ELSE The({IF Peek(next) = ","
                                THEN ParseMembers(SkipSpace(Pop(next)), members)
                                ELSE IF Peek(next) = "}" /\ SkipSpace(Pop(next)) = <<>>
                                THEN [ok |-> TRUE, val |-> members, rest |-> <<>>]
                                ELSE SyntaxError
                                : next \in {SkipSpace(v.rest)},
                                  members \in {Append(acc, [key |-> k.val, val |-> v.val])}})
                      : v \in {ParseValue(SkipSpace(Pop(SkipSpace(k.rest))))}})
            : k \in {ParseString(Pop(s), <<>>)}})

ParseObject(s) ==
  The({IF Peek(open) # "{" THEN SyntaxError
       ELSE The({IF Peek(inner) = "}" /\ SkipSpace(Pop(inner)) = <<>>
                 THEN [ok |-> TRUE, val |-> <<>>, rest |-> <<>>]
                 ELSE ParseMembers(inner, <<>>)
                 : inner \in {SkipSpace(Pop(open))}})
       : open \in {SkipSpace(s)}})

\* obj[key]: the value of the last member of that name, or undefined
Undefined == [t |-> "undefined"]
Member(members, key) ==
  LET at == {j \in DOMAIN members : members[j].key = KeyRuns[key]}
  IN IF at = {} THEN Undefined
     ELSE members[CHOOSE j \in at : \A m \in at : m <= j].val

\* `Date.now() - cached.timestamp`: whether the subtraction has a number to
\* subtract (a string of white space counts as 0, any other string and
\* undefined give NaN), and that number
IsNumber(v) == v.t = "number" \/ (v.t = "string" /\ \A j \in DOMAIN v.s : v.s[j].c = " ")
ToNumber(v) == IF v.t = "number" THEN v.n ELSE -Far

\* JSON.parse(content) of what readFile read, and the fields get and cleanup
\* use: ok, the bytes are a document; text, cached.text (a document that set
\* wrote begins with its text); stamped and timestamp, cached.timestamp when
\* it is a number.
NotJSON == [ok |-> FALSE, text |-> EmptyText, stamped |-> FALSE, timestamp |-> 0]
JSONParse(content) ==
  IF content.t # "bytes" THEN NotJSON
  ELSE The({IF ~obj.ok THEN NotJSON
            ELSE The({[ok |-> TRUE,
                       text |-> IF text.t = "string" THEN text.s ELSE EmptyText,
                       stamped |-> IsNumber(stamp),
                       timestamp |-> IF IsNumber(stamp) THEN ToNumber(stamp) ELSE 0]
                      : text \in {Member(obj.val, TextKey)},
                        stamp \in {Member(obj.val, StampKey)}})
            : obj \in {The({ParseObject(chars) : chars \in {Chars(content.b)}})}})

\* The first bytes of a content, all of it but its second half.
FirstBytes(content) ==
  The({Bytes(Take(content.b, n \div 2)) : n \in {ByteLen(content)}})

\* fs.writeFile(path, content) opens the file with flag 'w', which truncates
\* it, writes the bytes from offset 0 and closes it: operations of the file
\* system between which those of other pending calls run.
\* write(fd, content) at offset 0 of a file holding `old`: the bytes of the
\* file past the end of the content stay.
WriteBytes(old, content) ==
  IF old.t # "bytes" THEN content
  ELSE The({The({Bytes(Join(c.b, Drop(old.b, n))) : n \in {ByteLen(c)}})
            : c \in {content}})

\* What the file system does with the write of a file that was opened: all
\* the bytes are written ("ok"), or the write fails having written nothing
\* ("none") or the first bytes only ("part").
WriteOutcomes == {"ok", "none", "part"}
WriteFileUnlinkOnFail(old, content, wr) ==
  IF wr = "ok" THEN WriteBytes(old, content) ELSE Absent
WriteFile(old, content, wr) ==
  IF wr = "ok" THEN WriteBytes(old, content)
  ELSE IF wr = "part" THEN The({WriteBytes(old, FirstBytes(c)) : c \in {content}})
  ELSE old

\* fs.readFile(path): fails when the directory or the file is missing or the
\* file cannot be read.
ReadFile(d, fs, f) ==
  IF ~d \/ fs[f] = Absent \/ fs[f] = Unreadable
  THEN [ok |-> FALSE, content |-> Absent]
  ELSE [ok |-> TRUE, content |-> fs[f]]

Miss == [threw |-> FALSE, hit |-> FALSE, text |-> EmptyText, timestamp |-> 0]
HitIgnored(text, ts) == Miss
Hit(text, ts) == [threw |-> FALSE, hit |-> TRUE, text |-> text, timestamp |-> ts]

\* get: `catch { }` followed by `return null`
GetCatchRethrow == [threw |-> TRUE, hit |-> FALSE, text |-> EmptyText, timestamp |-> 0]
GetCatch == Miss

\* get: `Date.now() - cached.timestamp < 6 * 60 * 60 * 1000`
IsFreshInclusive(t, ts) == t - ts <= FRESH
IsFresh(t, ts) == t - ts < FRESH

\* get, after `await fs.readFile(...)`: what it returns for the content read
\* (Absent: the read failed) when Date.now() is t
GetResult(read, t) ==
  IF read = Absent THEN GetCatch
  ELSE The({IF ~cached.ok THEN GetCatch
            ELSE IF cached.stamped /\ IsFresh(t, cached.timestamp)
            THEN Hit(cached.text, cached.timestamp)
            ELSE Miss
            : cached \in {JSONParse(read)}})

\* ArticleCache.get(url) when nothing happens between its read and its
\* return, at clock t
CacheGet(d, fs, t, url) == GetResult(ReadFile(d, fs, GetCachePath(url)).content, t)

\* ensureCacheDir: mkdir -p, its failure swallowed
EnsureCacheDir(d, mkdirOk) == d \/ mkdirOk

\* set: `catch { }`: whether a failed write surfaces
SetCatchRethrow == TRUE
SetCatch == FALSE

\* set: `{ text, timestamp: Date.now() }`
SetDataNoText(text, t) == [text |-> EmptyText, timestamp |-> t]
SetData(text, t) == [text |-> text, timestamp |-> t]

\* cleanup: `now - data.timestamp > 24 * 60 * 60 * 1000`
IsExpiredInclusive(t, ts) == t - ts >= RETAIN
IsExpired(t, ts) == t - ts > RETAIN

\* cleanup, `JSON.parse(await fs.readFile(filePath, "utf8"))` and the test:
\* whether the file read is to be unlinked, t being the clock cleanup read
\* after readdir.  A read or parse failure is caught per file.
ToUnlink(read, t) ==
  IF read = Absent THEN FALSE
  ELSE \E data \in {JSONParse(read)} :
         data.ok /\ data.stamped /\ IsExpired(t, data.timestamp)

\* fs.readdir(cacheDir): the names of the files of the directory, in an
\* order the file system chooses.
RECURSIVE Listings(_)
Listings(S) ==
  IF S = {} THEN {<<>>}
  ELSE UNION {{<<f>> \o l : l \in Listings(S \ {f})} : f \in S}
ReadDir(fs) == Listings({f \in FileNames : fs[f] # Absent})

Texts == {EmptyText, <<Run("a", 1)>>}

\* ------------------------------------------------------------------------
\* The calls of the cache and of the scraper, step by step
\* ------------------------------------------------------------------------
\* A call is an async function: it runs up to an await, the awaited operation
\* of the file system or of the network is performed at some later moment,
\* and the function goes on at a moment later still.  Each such moment is a
\* step, and the steps of the calls that are pending together interleave.

\* The call returns: what is kept of it.
Return(c) == [c EXCEPT !.step = "done", !.linked = TRUE, !.todo = <<>>]

\* get: fs.readFile reads the file
GetRead(c, d, fs) ==
  [c EXCEPT !.read = ReadFile(d, fs, GetCachePath(c.url)).content, !.step = "test"]

\* get, after the await: JSON.parse, the test against Date.now(), the return
GetTest(c, t) ==
  The({Return([c EXCEPT !.at = t, !.threw = r.threw, !.hit = r.hit, !.text = r.text,
                        !.timestamp = r.timestamp])
       : r \in {GetResult(c.read, t)}})

\* set: `await this.ensureCacheDir()`: mkdir is performed
SetMkdir(c) == [c EXCEPT !.step = "stamp"]

\* set, after the await: `{ text, timestamp: Date.now() }`, and writeFile is called
SetStamp(c, t) == [c EXCEPT !.timestamp = t, !.step = "open"]

\* The document set writes.
SetDocument(c) == JSONStringify(SetData(c.text, c.timestamp))

\* writeFile: open(path, 'w') is performed; a failure ends set, swallowed
SetOpen(c, ok) ==
  IF ok THEN [c EXCEPT !.step = "write", !.linked = TRUE]
  ELSE Return([c EXCEPT !.stored = FALSE, !.threw = SetCatch])

\* writeFile: write(fd, JSON.stringify(data)) is performed; writeFile goes
\* on to close the file, whether the write failed or not
SetWrite(c, wr) == [c EXCEPT !.stored = (wr = "ok"), !.step = "close"]

\* writeFile: close(fd) is performed and writeFile settles; set returns, a
\* failed write swallowed
SetClose(c) == Return([c EXCEPT !.threw = IF c.stored THEN FALSE ELSE SetCatch])

\* The file of a call after its write: the bytes written to a file that was
\* unlinked since it was opened are in no file of the directory.
Written(c, old, wr) ==
  IF c.linked THEN The({WriteFile(old, doc, wr) : doc \in {SetDocument(c)}}) ELSE old

\* cleanup: fs.readdir lists the directory; its failure ends cleanup, swallowed
CleanupReaddir(c, d, listing) ==
  IF ~d THEN Return(c) ELSE [c EXCEPT !.todo = listing, !.step = "stamp"]

\* The loop of cleanup goes to the next file of the listing, or cleanup returns.
\* (CleanupNextStop: a loop that would give up after its first file.)
CleanupNextStop(c) == Return(c)
CleanupNext(c) ==
  IF Len(c.todo) <= 1 THEN Return(c)
  ELSE [c EXCEPT !.todo = Tail(@), !.step = "read"]

\* cleanup, after the await: `const now = Date.now()`, and the loop begins
CleanupStamp(c, t) ==
  IF c.todo = <<>> THEN Return([c EXCEPT !.at = t])
  ELSE [c EXCEPT !.at = t, !.step = "read"]

\* cleanup, for the file at the head of the listing: readFile reads it, and
\* after the await it is parsed and its age tested against the clock read
\* before the loop
CleanupRead(c, d, fs) ==
  LET rd == ReadFile(d, fs, Head(c.todo))
  IN IF ToUnlink(rd.content, c.at) THEN [c EXCEPT !.step = "unlink"]
     ELSE CleanupNext(c)

\* cleanup: fs.unlink is performed on the file, whatever it holds by now; a
\* failure (the file is gone, the file system refuses) is caught per file
CleanupUnlink(c, fs, ok) ==
  LET f == Head(c.todo)
  IN IF ok /\ fs[f] # Absent
     THEN CleanupNext([c EXCEPT !.removed = @ \cup {f}])
     ELSE CleanupNext([c EXCEPT !.failing = @ \cup {f}])

\* ------------------------------------------------------------------------
\* The calls made to the cache
\* ------------------------------------------------------------------------
\* calls lists the calls made, in the order in which they were made; last is
\* the call that returned last.
Pending == {k \in DOMAIN calls : calls[k].step # "done"}

\* A call is made, when fewer than max have been: it runs up to its first
\* await.  It is alone if no call is pending, and no pending call is alone
\* any more.
Start(c, max) ==
  /\ Len(calls) < max
  /\ calls' = Append([k \in DOMAIN calls |->
                        IF k \in Pending THEN [calls[k] EXCEPT !.alone = FALSE]
                        ELSE calls[k]],
                     [c EXCEPT !.before = files,
                               !.alone = (Pending = {})])
  /\ UNCHANGED <<now, dir, files, last>>

\* Call k is at the step `step` of one of the functions ops.
At(k, ops, step) ==
  /\ k \in DOMAIN calls
  /\ calls[k].op \in ops
  /\ calls[k].step = step

\* Call k has made a step and is now c.
Becomes(k, c) ==
  /\ calls' = [calls EXCEPT ![k] = c]
  /\ last' = IF c.step = "done" THEN c ELSE last

\* Date.now(): the clock is where the last reading left it, or time has
\* passed since.
Later(t0) == {t0} \cup {t \in Instants : t > t0}

\* get(url), set(url, text), cleanup() and fetchArticleText(url) are called.
Get == \E url \in Urls : Start(GetCall(url), MaxCalls)
Set == \E url \in Urls, text \in Texts : Start(SetCall(url, text), MaxCalls)
Cleanup == Start(CleanupCall, MaxCalls)

\* get: the file is read
GetReads(k) ==
  /\ At(k, {"get", "fetchArticleText"}, "read")
  /\ Becomes(k, GetRead(calls[k], dir, files))
  /\ UNCHANGED <<now, dir, files>>

\* get goes on after its await and returns
GetReturns(k) ==
  /\ At(k, {"get"}, "test")
  /\ \E t \in Later(now) : now' = t /\ Becomes(k, GetTest(calls[k], t))
  /\ UNCHANGED <<dir, files>>

\* ensureCacheDir: mkdir is performed
SetMakesDir(k) ==
  /\ At(k, {"set", "fetchArticleText"}, "mkdir")
  /\ \E mkdirOk \in (IF dir THEN {TRUE} ELSE BOOLEAN) :
       dir' = EnsureCacheDir(dir, mkdirOk)
  /\ Becomes(k, SetMkdir(calls[k]))
  /\ UNCHANGED <<now, files>>

\* set goes on after its await, reads the clock and calls writeFile
SetStamps(k) ==
  /\ At(k, {"set", "fetchArticleText"}, "stamp")
  /\ \E t \in Later(now) : now' = t /\ Becomes(k, SetStamp(calls[k], t))
  /\ UNCHANGED <<dir, files>>

\* writeFile: the file is opened, which creates or truncates it
SetOpens(k) ==
  /\ At(k, {"set", "fetchArticleText"}, "open")
  /\ \E ok \in (IF dir THEN BOOLEAN ELSE {FALSE}) :
       /\ files' = IF ok THEN [files EXCEPT ![GetCachePath(calls[k].url)] = Truncated]
                   ELSE files
       /\ Becomes(k, SetOpen(calls[k], ok))
  /\ UNCHANGED <<now, dir>>

\* writeFile: the document is written
SetWrites(k) ==
  /\ At(k, {"set", "fetchArticleText"}, "write")
  /\ \E wr \in WriteOutcomes :
       LET f == GetCachePath(calls[k].url)
       IN /\ files' = [files EXCEPT ![f] = Written(calls[k], files[f], wr)]
          /\ Becomes(k, SetWrite(calls[k], wr))
  /\ UNCHANGED <<now, dir>>

\* writeFile: the file is closed, and set returns
SetCloses(k) ==
  /\ At(k, {"set", "fetchArticleText"}, "close")
  /\ Becomes(k, SetClose(calls[k]))
  /\ UNCHANGED <<now, dir, files>>

\* cleanup: the directory is listed
CleanupLists(k) ==
  /\ At(k, {"cleanup"}, "readdir")
  /\ \E listing \in ReadDir(files) : Becomes(k, CleanupReaddir(calls[k], dir, listing))
  /\ UNCHANGED <<now, dir, files>>

\* cleanup goes on after its await and reads the clock
CleanupStamps(k) ==
  /\ At(k, {"cleanup"}, "stamp")
  /\ \E t \in Later(now) : now' = t /\ Becomes(k, CleanupStamp(calls[k], t))
  /\ UNCHANGED <<dir, files>>

\* cleanup: the next file of the listing is read and tested
CleanupReads(k) ==
  /\ At(k, {"cleanup"}, "read")
  /\ Becomes(k, CleanupRead(calls[k], dir, files))
  /\ UNCHANGED <<now, dir, files>>

\* cleanup: the file is unlinked.  A call that has the file open goes on
\* writing to a file that has no name any more.
CleanupUnlinks(k) ==
  /\ At(k, {"cleanup"}, "unlink")
  /\ \E ok \in BOOLEAN :
       LET f == Head(calls[k].todo)
           c == CleanupUnlink(calls[k], files, ok)
           gone == f \in c.removed
       IN /\ files' = IF gone THEN [files EXCEPT ![f] = Absent] ELSE files
          /\ calls' = [j \in DOMAIN calls |->
                         IF j = k THEN c
                         ELSE IF gone /\ calls[j].step = "write"
                                     /\ GetCachePath(calls[j].url) = f
                              THEN [calls[j] EXCEPT !.linked = FALSE]
                              ELSE calls[j]]
          /\ last' = IF c.step = "done" THEN c ELSE last
  /\ UNCHANGED <<now, dir>>

\* ------------------------------------------------------------------------
\* Article scraper
\* ------------------------------------------------------------------------
\* `.slice(0, 8000)`
MaxTextLen == 8000

\* What the network answers to fetch(url): the request fails (network error,
\* timeout), the response is not ok, or it is a page, of which the model keeps
\* the text of its <article>, <main> and <body> elements ("" when absent).
LongText == <<Run(" ", 1), Run("a", 2), Run(" ", 3), Run("b", MaxTextLen), Run(" ", 1)>>
Page(a, m, b) == [k |-> "page", article |-> a, main |-> m, body |-> b]
Pages == {Page(<<Run("a", 1)>>, EmptyText, LongText),
          Page(<<Run(" ", 2)>>, <<Run(" ", 1), Run("b", 2)>>, LongText),
          Page(EmptyText, EmptyText, LongText),
          Page(EmptyText, <<Run(" ", 2)>>, <<Run(" ", 2)>>),
          Page(EmptyText, EmptyText, EmptyText)}
NetError == [k |-> "error"]
NotOk == [k |-> "notok", article |-> EmptyText, main |-> EmptyText,
          body |-> <<Run("e", 1)>>]

\* `$("article").text().trim() || $("main").text().trim() || $("body").text().trim()`
ExtractNoTrim(page) ==
  IF page.article # EmptyText THEN Trim(page.article)
  ELSE IF page.main # EmptyText THEN Trim(page.main)
  ELSE Trim(page.body)
Extract(page) ==
  IF Trim(page.article) # EmptyText THEN Trim(page.article)
  ELSE IF Trim(page.main) # EmptyText THEN Trim(page.main)
  ELSE Trim(page.body)

\* `if (cached)`: cache.get returned an entry, whatever its text
IsCachedWithText(cached) == cached.hit /\ cached.text # EmptyText
IsCached(cached) == cached.hit

\* `const res = await fetch(...); if (!res.ok) throw ...`: the request did not
\* fail and the response is ok
ResponseOkUnchecked(resp) == resp.k # "error"
ResponseOk(resp) == resp.k = "page"

\* `text.replace(/\s+/g, " ").trim().slice(0, 8000)`
CleanUncapped(text) == Trim(CollapseWhitespace(text))
Clean(text) == Slice(Trim(CollapseWhitespace(text)), MaxTextLen)

\* fetchArticleText, after `await cache.get(url)`: get has tested the entry
\* against Date.now(); `if (cached) return cached.text`, else fetch is called
ScrapeTest(c, t) ==
  The({IF cached.threw THEN Return([c EXCEPT !.at = t, !.threw = TRUE])
       ELSE IF IsCached(cached)
       THEN Return([c EXCEPT !.at = t, !.hit = TRUE, !.text = cached.text,
                             !.timestamp = cached.timestamp])
       ELSE [c EXCEPT !.at = t, !.step = "fetch"]
       : cached \in {GetResult(c.read, t)}})

\* fetchArticleText, after `await fetch(...)`: fetch has rejected or has
\* resolved with a response; `if (!res.ok) throw ...`, else res.text() is
\* called
ScrapeFetch(c, resp) ==
  IF ~ResponseOk(resp) THEN Return([c EXCEPT !.threw = TRUE, !.net = resp.k])
  ELSE [c EXCEPT !.net = resp.k, !.res = resp, !.step = "text"]

\* fetchArticleText, after `await res.text()`: the body could not be read and
\* the call throws, or the text is extracted and cleaned and
\* `cache.set(url, cleanText)` is called
ScrapeText(c, ok) ==
  IF ~ok THEN Return([c EXCEPT !.threw = TRUE, !.net = "error", !.res = NoRes])
  ELSE LET cleanText == Clean(Extract(c.res))
       IN [c EXCEPT !.scraped = cleanText, !.text = cleanText, !.res = NoRes,
                    !.step = "mkdir"]

\* What the network answers to a call made on its own: both kinds of
\* failure, a page whose text is longer than the cap and a page whose
\* extraction is empty.
ScrapeResponses ==
  {NetError, NotOk, Page(EmptyText, EmptyText, LongText),
   Page(EmptyText, <<Run(" ", 2)>>, <<Run(" ", 2)>>)}

\* fetchArticleText(url) is called.
Scrape == \E url \in Urls : Start(ScrapeCall(url), MaxCalls)

\* fetchArticleText goes on after `await cache.get(url)`
ScrapeTests(k) ==
  /\ At(k, {"fetchArticleText"}, "test")
  /\ \E t \in Later(now) : now' = t /\ Becomes(k, ScrapeTest(calls[k], t))
  /\ UNCHANGED <<dir, files>>

\* the network answers fetchArticleText
ScrapeFetches(k) ==
  /\ At(k, {"fetchArticleText"}, "fetch")
  /\ \E resp \in ScrapeResponses : Becomes(k, ScrapeFetch(calls[k], resp))
  /\ UNCHANGED <<now, dir, files>>

\* the body of the response arrives, or fails to
ScrapeTexts(k) ==
  /\ At(k, {"fetchArticleText"}, "text")
  /\ \E ok \in BOOLEAN : Becomes(k, ScrapeText(calls[k], ok))
  /\ UNCHANGED <<now, dir, files>>

\* `parallelLimit(urls, fetchArticle, 25)`
ArticleCap == 25

\* What the network answers during a batch: both kinds of failure, a page
\* with text and a page whose extraction is empty.
ArticleResponses ==
  {NetError, NotOk, Page(<<Run("a", 1)>>, EmptyText, LongText),
   Page(EmptyText, <<Run(" ", 2)>>, <<Run(" ", 2)>>)}

\* fetchArticle: `catch (error) { ...; return { url, text: "" }; }`
FetchArticleCatchRethrow(url) == [status |-> "rejected", val |-> NoVal]
FetchArticleCatch(url) ==
  [status |-> "fulfilled", val |-> [t |-> "article", url |-> url, text |-> EmptyText]]

\* fetchArticle: `return { url, text }`
FetchArticleReturn(url, text) ==
  [status |-> "fulfilled", val |-> [t |-> "article", url |-> url, text |-> text]]

\* The steps of fetchArticle(items[k]) inside fetchAllArticles: those of
\* fetchArticleText, job[k] being the record of its call.
\* How the call ended: with a cached text, a scraped one, or a failure.
How(c) ==
  IF c.step # "done" THEN "none"
  ELSE IF c.threw THEN "failed"
  ELSE IF c.hit THEN "hit"
  ELSE "scraped"

\* fetchArticle: `const text = await fetchArticleText(url); return { url, text }`
\* in a try whose catch returns the empty text
ArticleOutcome(c) ==
  IF c.threw THEN FetchArticleCatch(c.url) ELSE FetchArticleReturn(c.url, c.text)

\* The call of input k has made a step and is now c; fetchArticle settles
\* when the call has returned or thrown.
ArticleBecomes(k, c) ==
  /\ job' = [job EXCEPT ![k] = [c EXCEPT !.how = How(c),
                                         !.tries = IF c.step = "fetch" THEN @ + 1 ELSE @]]
  /\ fnp' = IF c.step = "done" THEN [fnp EXCEPT ![k] = ArticleOutcome(c).status] ELSE fnp
  /\ fnval' = IF c.step = "done" THEN [fnval EXCEPT ![k] = ArticleOutcome(c).val] ELSE fnval

\* Input k of fetchAllArticles is at the step `step` of fetchArticleText.
ArticleAt(k, step) ==
  /\ kind = "articles"
  /\ k \in DOMAIN fnp
  /\ fnp[k] = "pending"
  /\ job[k].step = step

\* `await cache.get(url)`: the file is read
ArtGet(k) ==
  /\ ArticleAt(k, "read")
  /\ ArticleBecomes(k, GetRead(job[k], dir, files))
  /\ UNCHANGED <<kind, items, limit, pc, i, prom, results, executing, awaitSet,
                 awaited, settled, feedLimit, cacheVars>>

\* get returns: `if (cached) return cached.text;`, else fetch is called
ArtTest(k) ==
  /\ ArticleAt(k, "test")
  /\ ArticleBecomes(k, ScrapeTest(job[k], now))
  /\ UNCHANGED <<kind, items, limit, pc, i, prom, results, executing, awaitSet,
                 awaited, settled, feedLimit, cacheVars>>

\* `const res = await fetch(url, ...); if (!res.ok) throw ...`
ArtNet(k) ==
  /\ ArticleAt(k, "fetch")
  /\ \E resp \in ArticleResponses : ArticleBecomes(k, ScrapeFetch(job[k], resp))
  /\ UNCHANGED <<kind, items, limit, pc, i, prom, results, executing, awaitSet,
                 awaited, settled, feedLimit, cacheVars>>

\* `const html = await res.text()`, the extraction and cleanText
ArtBody(k) ==
  /\ ArticleAt(k, "text")
  /\ \E ok \in BOOLEAN : ArticleBecomes(k, ScrapeText(job[k], ok))
  /\ UNCHANGED <<kind, items, limit, pc, i, prom, results, executing, awaitSet,
                 awaited, settled, feedLimit, cacheVars>>

\* cache.set: `await this.ensureCacheDir()`
ArtMkdir(k) ==
  /\ ArticleAt(k, "mkdir")
  /\ \E mkdirOk \in (IF dir THEN {TRUE} ELSE BOOLEAN) :
       dir' = EnsureCacheDir(dir, mkdirOk)
  /\ ArticleBecomes(k, SetMkdir(job[k]))
  /\ UNCHANGED <<kind, items, limit, pc, i, prom, results, executing, awaitSet,
                 awaited, settled, feedLimit, now, files, last, calls>>

\* cache.set: `{ text, timestamp: Date.now() }`, and writeFile is called
ArtStamp(k) ==
  /\ ArticleAt(k, "stamp")
  /\ ArticleBecomes(k, SetStamp(job[k], now))
  /\ UNCHANGED <<kind, items, limit, pc, i, prom, results, executing, awaitSet,
                 awaited, settled, feedLimit, cacheVars>>

\* cache.set: `await fs.writeFile(cachePath, JSON.stringify(data))`, the open
ArtOpen(k) ==
  /\ ArticleAt(k, "open")
  /\ \E ok \in (IF dir THEN BOOLEAN ELSE {FALSE}) :
       /\ files' = IF ok THEN [files EXCEPT ![GetCachePath(job[k].url)] = Truncated]
                   ELSE files
       /\ ArticleBecomes(k, SetOpen(job[k], ok))
  /\ UNCHANGED <<kind, items, limit, pc, i, prom, results, executing, awaitSet,
                 awaited, settled, feedLimit, now, dir, last, calls>>

\* cache.set: the write of writeFile
ArtWrite(k) ==
  /\ ArticleAt(k, "write")
  /\ \E wr \in WriteOutcomes :
       LET f == GetCachePath(job[k].url)
       IN /\ files' = [files EXCEPT ![f] = Written(job[k], files[f], wr)]
          /\ ArticleBecomes(k, SetWrite(job[k], wr))
  /\ UNCHANGED <<kind, items, limit, pc, i, prom, results, executing, awaitSet,
                 awaited, settled, feedLimit, now, dir, last, calls>>

\* cache.set: the close of writeFile; set returns and fetchArticleText
\* returns cleanText
ArtClose(k) ==
  /\ ArticleAt(k, "close")
  /\ ArticleBecomes(k, SetClose(job[k]))
  /\ UNCHANGED <<kind, items, limit, pc, i, prom, results, executing, awaitSet,
                 awaited, settled, feedLimit, cacheVars>>

\* fetchAllArticles(urls): `parallelLimit(urls, fetchArticle, 25)`
FetchAllArticles(urls) == PLInvoke(urls, ArticleCap, "articles")

\* The storage a run may find: no directory, or a directory in which the
\* files of an earlier run are missing or unreadable.
InitCache ==
  /\ now = 0
  /\ dir \in BOOLEAN
  /\ \E content \in {Absent, Unreadable} : files = [f \in FileNames |-> content]
  /\ (~dir => files = [f \in FileNames |-> Absent])
  /\ last = NoCall
  /\ calls = <<>>

\* ------------------------------------------------------------------------
\* Feed fetcher
\* ------------------------------------------------------------------------
\* `limit = 5`, and the cap of fetchAllFeeds
FeedItemLimit == 5
FeedCap == 10

FeedUrls == {"fA", "fB"}

\* A feed item; "" stands for a missing title or link.
Item(link, title) == [link |-> link, title |-> title]

\* What parser.parseURL(url) answers: it fails, or it yields the feed's items.
ParseFail == [ok |-> FALSE, items |-> <<>>]
Parsed(its) == [ok |-> TRUE, items |-> its]
FeedParses ==
  {ParseFail, Parsed(<<>>), Parsed(<<Item("a1", "T1")>>),
   Parsed(<<Item("", "T3"), Item("a2", "")>>),
   Parsed(<<Item("a1", "T1"), Item("", "T3"), Item("a2", "T2")>>)}
\* The feed "fA" answers any of these; the other feeds are short ones, of one
\* item at most.
FeedAnswers(url) ==
  IF url = "fA" THEN FeedParses ELSE {p \in FeedParses : Len(p.items) <= 1}

Min(a, b) == IF a <= b THEN a ELSE b

\* fetchFeedItems(url, limit): `feed.items.slice(0, limit)`, any failure
\* rethrown as "Invalid RSS source"
FetchFeedItems(parse, lim) ==
  IF ~parse.ok THEN [threw |-> TRUE, items |-> <<>>]
  ELSE [threw |-> FALSE, items |-> SubSeq(parse.items, 1, Min(lim, Len(parse.items)))]

\* fetchFeed: `catch (error) { ...; return { url, items: [] }; }`
FetchFeedCatchRetry(url) == [status |-> "pending", val |-> NoVal]
FetchFeedCatchRethrow(url) == [status |-> "rejected", val |-> NoVal]
FetchFeedCatch(url) ==
  [status |-> "fulfilled", val |-> [t |-> "feed", url |-> url, items |-> <<>>]]

\* fetchFeed(url), the transform of fetchAllFeeds
FetchFeed(url, parse, lim) ==
  LET r == FetchFeedItems(parse, lim)
  IN IF r.threw THEN FetchFeedCatch(url)
     ELSE [status |-> "fulfilled", val |-> [t |-> "feed", url |-> url, items |-> r.items]]

\* The feed of input k answers and fetchFeed settles.
FeedSettle(k) ==
  /\ kind = "feeds"
  /\ k \in DOMAIN fnp
  /\ fnp[k] = "pending"
  /\ \E parse \in FeedAnswers(items[k]) :
       LET r == FetchFeed(items[k], parse, feedLimit)
       IN /\ fnp' = [fnp EXCEPT ![k] = r.status]
          /\ fnval' = [fnval EXCEPT ![k] = r.val]
          /\ job' = [job EXCEPT ![k].parsed = parse, ![k].step = "done",
                                 ![k].tries = @ + 1]
  /\ UNCHANGED <<kind, items, limit, pc, i, prom, results, executing, awaitSet,
                 awaited, settled, feedLimit>>

\* fetchAllFeeds(urls, limit): `parallelLimit(urls, fetchFeed, 10)`
FetchAllFeeds(urls, lim) ==
  /\ feedLimit' = lim
  /\ PLInvoke(urls, FeedCap, "feeds")

\* The stages of main and the record kept of a stage's calls.
Stages == {"feeds", "articles", "sources", "files", "global"}
NoCalls == [invoked |-> FALSE, total |-> 0, started |-> 0, settled |-> 0, failed |-> 0,
            tries |-> <<>>]

\* No function is under study.
NoArg == [t |-> "none"]
FunIdle == arg = NoArg /\ out = NoArg

PLIdle ==
  /\ kind = "none"
  /\ items = <<>>
  /\ limit = 1
  /\ pc = "idle"
  /\ i = 1
  /\ fnp = <<>>
  /\ fnval = <<>>
  /\ prom = <<>>
  /\ results = <<>>
  /\ executing = {}
  /\ awaitSet = {}
  /\ awaited = "none"
  /\ settled = <<>>
  /\ job = <<>>
  /\ feedLimit = FeedItemLimit
  /\ mpc = "init"
  /\ allArticles = <<>>
  /\ summaries = <<>>
  /\ hist = [s \in Stages |-> NoCalls]
  /\ sourcesData = <<>>
  /\ globalInput = <<>>
  /\ written = {}

\* A caller invokes parallelLimit on some list with some limit >= 1.
PLCall ==
  /\ pc = "idle"
  /\ \E its \in SeqsUpTo(Values, MaxItems), lim \in 1..MaxLimit :
        PLInvoke(its, lim, "generic")
  /\ UNCHANGED feedLimit

InitPL == PLIdle /\ FunIdle /\ InitCache /\ dir = FALSE

NextPL ==
  \/ PLCall /\ UNCHANGED cacheVars /\ UNCHANGED <<mainVars, funVars>>
  \/ \E k \in 1..MaxItems : FnFulfil(k) /\ UNCHANGED <<jobVars, cacheVars>> /\ UNCHANGED <<mainVars, funVars>>
  \/ \E k \in 1..MaxItems : FnReject(k) /\ UNCHANGED <<jobVars, cacheVars>> /\ UNCHANGED <<mainVars, funVars>>
  \/ \E k \in 1..MaxItems : ThenJob(k) /\ UNCHANGED <<jobVars, cacheVars>> /\ UNCHANGED <<mainVars, funVars>>
  \/ \E k \in 1..MaxItems : FinallyJob(k) /\ UNCHANGED <<jobVars, cacheVars>> /\ UNCHANGED <<mainVars, funVars>>
  \/ \E k \in 1..MaxItems : ChainSettle(k) /\ UNCHANGED <<jobVars, cacheVars>> /\ UNCHANGED <<mainVars, funVars>>
  \/ \E k \in 1..MaxItems : Reaction(k) /\ UNCHANGED <<jobVars, cacheVars>> /\ UNCHANGED <<mainVars, funVars>>
  \/ ResumeRace /\ UNCHANGED <<jobVars, cacheVars>> /\ UNCHANGED <<mainVars, funVars>>
  \/ ResumeAll /\ UNCHANGED <<jobVars, cacheVars>> /\ UNCHANGED <<mainVars, funVars>>
  \/ Throw /\ UNCHANGED <<jobVars, cacheVars>> /\ UNCHANGED <<mainVars, funVars>>

SpecPL == InitPL /\ [][NextPL]_vars

InitStore == PLIdle /\ FunIdle /\ InitCache

\* What the steps of the cache leave alone.
Rest == <<plVars, jobVars, mainVars, funVars>>

NextStore ==
  \/ Get /\ UNCHANGED Rest
  \/ Set /\ UNCHANGED Rest
  \/ Cleanup /\ UNCHANGED Rest
  \/ Scrape /\ UNCHANGED Rest
  \/ \E k \in DOMAIN calls : GetReads(k) /\ UNCHANGED Rest
  \/ \E k \in DOMAIN calls : GetReturns(k) /\ UNCHANGED Rest
  \/ \E k \in DOMAIN calls : SetMakesDir(k) /\ UNCHANGED Rest
  \/ \E k \in DOMAIN calls : SetStamps(k) /\ UNCHANGED Rest
  \/ \E k \in DOMAIN calls : SetOpens(k) /\ UNCHANGED Rest
  \/ \E k \in DOMAIN calls : SetWrites(k) /\ UNCHANGED Rest
  \/ \E k \in DOMAIN calls : SetCloses(k) /\ UNCHANGED Rest
  \/ \E k \in DOMAIN calls : CleanupLists(k) /\ UNCHANGED Rest
  \/ \E k \in DOMAIN calls : CleanupStamps(k) /\ UNCHANGED Rest
  \/ \E k \in DOMAIN calls : CleanupReads(k) /\ UNCHANGED Rest
  \/ \E k \in DOMAIN calls : CleanupUnlinks(k) /\ UNCHANGED Rest
  \/ \E k \in DOMAIN calls : ScrapeTests(k) /\ UNCHANGED Rest
  \/ \E k \in DOMAIN calls : ScrapeFetches(k) /\ UNCHANGED Rest
  \/ \E k \in DOMAIN calls : ScrapeTexts(k) /\ UNCHANGED Rest

SpecStore == InitStore /\ [][NextStore]_vars

\* fetchAllFeeds on up to MaxFeeds urls.  With fewer urls than the cap the
\* loop never waits at Promise.race.
FeedsCall ==
  /\ pc = "idle"
  /\ \E urls \in SeqsUpTo(FeedUrls, MaxFeeds), lim \in 1..MaxFeedLimit :
        FetchAllFeeds(urls, lim)

NextFeeds ==
  \/ FeedsCall /\ UNCHANGED cacheVars /\ UNCHANGED <<mainVars, funVars>>
  \/ \E k \in 1..MaxFeeds : FeedSettle(k) /\ UNCHANGED cacheVars /\ UNCHANGED <<mainVars, funVars>>
  \/ \E k \in 1..MaxFeeds : ThenJob(k) /\ UNCHANGED <<jobVars, cacheVars>> /\ UNCHANGED <<mainVars, funVars>>
  \/ \E k \in 1..MaxFeeds : FinallyJob(k) /\ UNCHANGED <<jobVars, cacheVars>> /\ UNCHANGED <<mainVars, funVars>>
  \/ \E k \in 1..MaxFeeds : ChainSettle(k) /\ UNCHANGED <<jobVars, cacheVars>> /\ UNCHANGED <<mainVars, funVars>>
  \/ \E k \in 1..MaxFeeds : Reaction(k) /\ UNCHANGED <<jobVars, cacheVars>> /\ UNCHANGED <<mainVars, funVars>>
  \/ ResumeAll /\ UNCHANGED <<jobVars, cacheVars>> /\ UNCHANGED <<mainVars, funVars>>

SpecFeeds == InitPL /\ [][NextFeeds]_vars

\* The cache a batch may find: per url nothing, an unusable file, or an entry
\* an earlier run stored at instant 0, seen just after it or once it is stale.
EarlierEntries == {JSONStringify(SetData(text, 0)) : text \in Texts}

InitArticles ==
  /\ PLIdle
  /\ FunIdle
  /\ now \in {1, FRESH}
  /\ dir \in BOOLEAN
  /\ files \in [FileNames -> {Absent, Garbage, Unreadable} \cup EarlierEntries]
  /\ ~dir => \A f \in FileNames : files[f] = Absent
  /\ last = NoCall
  /\ calls = <<>>

\* fetchAllArticles on up to MaxArticles urls.  With fewer urls than the cap
\* the loop never waits at Promise.race.
ArticlesCall ==
  /\ pc = "idle"
  /\ \E urls \in SeqsUpTo(Urls, MaxArticles) : FetchAllArticles(urls)
  /\ UNCHANGED feedLimit

NextArticles ==
  \/ ArticlesCall /\ UNCHANGED cacheVars /\ UNCHANGED <<mainVars, funVars>>
  \/ \E k \in 1..MaxArticles : ArtGet(k) /\ UNCHANGED <<mainVars, funVars>>
  \/ \E k \in 1..MaxArticles : ArtTest(k) /\ UNCHANGED <<mainVars, funVars>>
  \/ \E k \in 1..MaxArticles : ArtNet(k) /\ UNCHANGED <<mainVars, funVars>>
  \/ \E k \in 1..MaxArticles : ArtBody(k) /\ UNCHANGED <<mainVars, funVars>>
  \/ \E k \in 1..MaxArticles : ArtMkdir(k) /\ UNCHANGED <<mainVars, funVars>>
  \/ \E k \in 1..MaxArticles : ArtStamp(k) /\ UNCHANGED <<mainVars, funVars>>
  \/ \E k \in 1..MaxArticles : ArtOpen(k) /\ UNCHANGED <<mainVars, funVars>>
  \/ \E k \in 1..MaxArticles : ArtWrite(k) /\ UNCHANGED <<mainVars, funVars>>
  \/ \E k \in 1..MaxArticles : ArtClose(k) /\ UNCHANGED <<mainVars, funVars>>
  \/ \E k \in 1..MaxArticles : ThenJob(k) /\ UNCHANGED <<jobVars, cacheVars>> /\ UNCHANGED <<mainVars, funVars>>
  \/ \E k \in 1..MaxArticles : FinallyJob(k) /\ UNCHANGED <<jobVars, cacheVars>> /\ UNCHANGED <<mainVars, funVars>>
  \/ \E k \in 1..MaxArticles : ChainSettle(k) /\ UNCHANGED <<jobVars, cacheVars>> /\ UNCHANGED <<mainVars, funVars>>
  \/ \E k \in 1..MaxArticles : Reaction(k) /\ UNCHANGED <<jobVars, cacheVars>> /\ UNCHANGED <<mainVars, funVars>>
  \/ ResumeAll /\ UNCHANGED <<jobVars, cacheVars>> /\ UNCHANGED <<mainVars, funVars>>

SpecArticles == InitArticles /\ [][NextArticles]_vars

\* ------------------------------------------------------------------------
\* main: the pipeline
\* ------------------------------------------------------------------------
\* `parallelLimit(sourcesData, processSource, 6)`, `parallelLimit(files, writeFile, 20)`
SourceCap == 6
FileCap == 20

\* config.feeds of the runs explored, a list that is not empty (loadConfig
\* rejects an empty one); "fB2" is a second feed on the host of "fB" (another
\* path of the same site)
MainConfigs == {<<"fA">>, <<"fA", "fB">>, <<"fB", "fB2">>}

\* `items.filter(item => item.link && item.title).map(...)` of one feed result
ArticlesOfFeed(feed) ==
  LET kept == SelectSeq(feed.items, LAMBDA it : it.link # "" /\ it.title # "")
  IN [j \in 1..Len(kept) |->
        [url |-> kept[j].link, title |-> kept[j].title, feedUrl |-> feed.url]]

\* `feedResults.flatMap(...)`: flatMap does not visit an empty slot
RECURSIVE FlatMapFeeds(_)
FlatMapFeeds(feedResults) ==
  IF feedResults = <<>> THEN <<>>
  ELSE (IF Head(feedResults) = Hole THEN <<>> ELSE ArticlesOfFeed(Head(feedResults)))
       \o FlatMapFeeds(Tail(feedResults))

\* `articleTexts[i] && articleTexts[i].text.length > 0`
HasText(t) == t.t # "hole" /\ StrLen(t.text) > 0

\* `allArticles.filter((_, i) => articleTexts[i] && articleTexts[i].text.length > 0)`
RECURSIVE ValidArticlesFrom(_, _, _)
ValidArticlesFrom(k, arts, texts) ==
  IF k > Len(arts) THEN <<>>
  ELSE (IF k \in DOMAIN texts /\ HasText(texts[k]) THEN <<arts[k]>> ELSE <<>>)
       \o ValidArticlesFrom(k + 1, arts, texts)
ValidArticlesUnfiltered(arts, texts) == arts
ValidArticles(arts, texts) == ValidArticlesFrom(1, arts, texts)

\* `articleTexts.filter(t => t && t.text.length > 0)`
ValidTextsUnfiltered(texts) == texts
ValidTexts(texts) == SelectSeq(texts, HasText)

\* The grouping loop: articlesBySource, a Map in insertion order, as the list
\* of its entries {feedUrl, articles}.
RECURSIVE GroupFrom(_, _, _, _)
GroupFrom(k, arts, texts, acc) ==
  IF k > Len(arts) THEN acc
  ELSE IF k > Len(texts) \/ texts[k].t = "hole" \/ texts[k].text = EmptyText
  THEN GroupFrom(k + 1, arts, texts, acc)
  ELSE LET a == arts[k]
           entry == [title |-> a.title, url |-> a.url, text |-> texts[k].text]
           pos == {j \in DOMAIN acc : acc[j].feedUrl = a.feedUrl}
       IN GroupFrom(k + 1, arts, texts,
            IF pos = {}
            THEN Append(acc, [t |-> "source", feedUrl |-> a.feedUrl, articles |-> <<entry>>])
            ELSE LET j == CHOOSE j \in pos : TRUE
                 IN [acc EXCEPT ![j].articles = Append(@, entry)])
SourcesData(arts, texts) == GroupFrom(1, arts, texts, <<>>)

\* The text the model answers for a source: a text of some length, longer
\* for the feed "fA" than for the others.
Text(of, len) == [t |-> "text", of |-> of, len |-> len]
Summary(feedUrl) == Text(<<"summary of", feedUrl>>, IF feedUrl = "fA" THEN 4 ELSE 2)

\* processSource: the SourceSummary built once the model has answered
ProcessSource(sourceData) ==
  [t |-> "summary",
   feedUrl |-> sourceData.feedUrl,
   articles |-> [j \in 1..Len(sourceData.articles) |->
                   [title |-> sourceData.articles[j].title, markdown |-> "",
                    feedUrl |-> sourceData.feedUrl,
                    articleUrl |-> sourceData.articles[j].url]],
   summary |-> Summary(sourceData.feedUrl)]

\* processSource(items[k]) settles: the model answers or the call fails.
SourceSettle(k) ==
  /\ kind = "sources"
  /\ k \in DOMAIN fnp
  /\ fnp[k] = "pending"
  /\ \E ok \in BOOLEAN :
       /\ fnp' = [fnp EXCEPT ![k] = IF ok THEN "fulfilled" ELSE "rejected"]
       /\ fnval' = [fnval EXCEPT ![k] = IF ok THEN ProcessSource(items[k]) ELSE NoVal]
  /\ job' = [job EXCEPT ![k].step = "done"]
  /\ UNCHANGED <<kind, items, limit, pc, i, prom, results, executing, awaitSet,
                 awaited, settled, feedLimit>>

\* `new URL(source.feedUrl).hostname`, sanitised, as the summary file's path:
\* the feeds "fB" and "fB2" are on one host, "fA" on another
Hostname(feedUrl) == <<"host", IF feedUrl \in {"fB", "fB2"} THEN "B" ELSE "A">>
SummaryPath(feedUrl) == <<Hostname(feedUrl), "_summary.md">>

\* The sourceFiles loop
SourceFiles(sums) ==
  [j \in 1..Len(sums) |->
     [t |-> "file", path |-> SummaryPath(sums[j].feedUrl), content |-> sums[j].summary]]

\* fs.writeFile(path, content, "utf8"): the bytes of a markdown text
Utf8(text) == Bytes(<<Part(text, 0, text.len)>>)

\* The review directory: the content of the file at a path, and the
\* directory once the file at a path holds a content.
FileAt(w, path) ==
  IF \E f \in w : f.path = path THEN (CHOOSE f \in w : f.path = path).content
  ELSE Absent
WriteOut(w, path, content) ==
  {f \in w : f.path # path} \cup {[path |-> path, content |-> content]}

\* writeFile(items[k]) of writeBatchMarkdownFiles,
\* `await fs.writeFile(file.path, file.content, "utf8")`: the file is opened,
\* which creates or truncates it; a failure rejects.
FileOpen(k) ==
  /\ kind = "files"
  /\ k \in DOMAIN fnp
  /\ fnp[k] = "pending"
  /\ job[k].step = "get"
  /\ \E ok \in BOOLEAN :
       IF ok
       THEN /\ written' = WriteOut(written, items[k].path, Truncated)
            /\ job' = [job EXCEPT ![k].step = "write"]
            /\ UNCHANGED <<fnp, fnval>>
       ELSE /\ fnp' = [fnp EXCEPT ![k] = "rejected"]
            /\ job' = [job EXCEPT ![k].step = "done"]
            /\ UNCHANGED <<fnval, written>>
  /\ UNCHANGED <<kind, items, limit, pc, i, prom, results, executing, awaitSet,
                 awaited, settled, feedLimit>>

\* The content is written.  A write that fails leaves in the file what it
\* wrote before it failed; fs.writeFile goes on to close the file.
FileWrite(k) ==
  /\ kind = "files"
  /\ k \in DOMAIN fnp
  /\ fnp[k] = "pending"
  /\ job[k].step = "write"
  /\ \E wr \in WriteOutcomes :
       /\ written' = WriteOut(written, items[k].path,
                              WriteFile(FileAt(written, items[k].path),
                                        Utf8(items[k].content), wr))
       /\ job' = [job EXCEPT ![k].step = "close", ![k].stored = (wr = "ok")]
  /\ UNCHANGED <<kind, items, limit, pc, i, fnp, fnval, prom, results, executing,
                 awaitSet, awaited, settled, feedLimit>>

\* The file is closed: writeFile(items[k]) settles, rejected if the write
\* failed.
FileSettle(k) ==
  /\ kind = "files"
  /\ k \in DOMAIN fnp
  /\ fnp[k] = "pending"
  /\ job[k].step = "close"
  /\ fnp' = [fnp EXCEPT ![k] = IF job[k].stored THEN "fulfilled" ELSE "rejected"]
  /\ fnval' = [fnval EXCEPT ![k] = IF job[k].stored THEN [t |-> "void"] ELSE NoVal]
  /\ job' = [job EXCEPT ![k].step = "done"]
  /\ UNCHANGED <<kind, items, limit, pc, i, prom, results, executing, awaitSet,
                 awaited, settled, feedLimit>>

\* generateGlobalSummary: sourcesText, one section per source summary, and
\* the counts the instruction quotes (GlobalSectionsReversed: the sections
\* last to first)
GlobalSectionsReversed(sums) ==
  [j \in 1..Len(sums) |->
     [hostname |-> Hostname(sums[Len(sums) + 1 - j].feedUrl),
      count |-> Len(sums[Len(sums) + 1 - j].articles),
      summary |-> sums[Len(sums) + 1 - j].summary]]
GlobalSections(sums) ==
  [j \in 1..Len(sums) |->
     [hostname |-> Hostname(sums[j].feedUrl), count |-> Len(sums[j].articles),
      summary |-> sums[j].summary]]

\* `path.join(reviewDir, "global_summary.md")` and the text the model answers
GlobalPath == <<<<"review", "">>, "global_summary.md">>
GlobalSummary(sections) == Text(<<"global summary of", sections>>, 6)

\* `if (allArticles.length === 0) { ...; return; }`
NoArticlesNever(found) == FALSE
NoArticles(found) == found = <<>>

\* The record of the executor's stage after a step: its calls in all, those
\* started and those settled.
Launched(p) == Cardinality({k \in DOMAIN p : p[k] # "unstarted"})
Settled(p) == Cardinality({k \in DOMAIN p : p[k] \in {"fulfilled", "rejected"}})
Rejected(p) == Cardinality({k \in DOMAIN p : p[k] = "rejected"})
TrackStage ==
  hist' = [hist EXCEPT ![kind'] = [invoked |-> TRUE, total |-> Len(items'),
                                   started |-> Launched(fnp'), settled |-> Settled(fnp'),
                                   failed |-> Rejected(fnp'),
                                   tries |-> [k \in DOMAIN job' |-> job'[k].tries]]]

\* main up to `const feedResults = await fetchAllFeeds(config.feeds)`:
\* loadConfig, ensureDirectoryExists and getCurrentVersion are awaited first,
\* outside any try, and a failure of one of them rejects main.
MainStart ==
  /\ mpc = "init"
  /\ \E ok \in BOOLEAN :
       IF ok
       THEN /\ \E feeds \in MainConfigs : FetchAllFeeds(feeds, FeedItemLimit)
            /\ mpc' = "feeds"
            /\ TrackStage
       ELSE /\ mpc' = "failed"
            /\ UNCHANGED <<plVars, jobVars, hist>>
  /\ UNCHANGED <<allArticles, summaries, sourcesData, globalInput, written, cacheVars>>

\* fetchAllFeeds has returned: allArticles, the early return when there is
\* none, else `await fetchAllArticles(allArticles.map(a => a.url))`.
MainAfterFeeds ==
  /\ mpc = "feeds"
  /\ kind = "feeds"
  /\ pc = "returned"
  /\ LET found == FlatMapFeeds(results)
     IN /\ allArticles' = found
        /\ IF NoArticles(found)
           THEN /\ mpc' = "done"
                /\ UNCHANGED <<plVars, job, hist>>
           ELSE /\ mpc' = "articles"
                /\ FetchAllArticles([j \in 1..Len(found) |-> found[j].url])
                /\ TrackStage
  /\ UNCHANGED <<feedLimit, summaries, sourcesData, globalInput, written, cacheVars>>

\* fetchAllArticles has returned: validArticles, validTexts,
\* `new AIProcessor(...)` (its `new ChatOpenAI(...)` throws when no API key is
\* configured; it is outside the try, so its failure rejects main),
\* `await aiProcessor.loadPrompt(...)` (which only fills in the prompt, while
\* nothing else of the run is pending), the grouping and
\* `await aiProcessor.generateSourceSummariesFromRaw(sourcesData)`
MainAfterArticles ==
  /\ mpc = "articles"
  /\ kind = "articles"
  /\ pc = "returned"
  /\ LET validArticles == ValidArticles(allArticles, results)
         validTexts == ValidTexts(results)
     IN \E processor \in BOOLEAN :
          IF ~processor
          THEN /\ mpc' = "failed"
               /\ UNCHANGED <<plVars, job, hist>>
               /\ UNCHANGED sourcesData
          ELSE IF validArticles = <<>>
          THEN /\ mpc' = "done"
               /\ UNCHANGED <<plVars, job, hist>>
               /\ UNCHANGED sourcesData
          ELSE /\ mpc' = "sources"
               /\ sourcesData' = SourcesData(validArticles, validTexts)
               /\ PLInvoke(sourcesData', SourceCap, "sources")
               /\ TrackStage
  /\ UNCHANGED <<feedLimit, allArticles, summaries, globalInput, written, cacheVars>>

\* generateSourceSummariesFromRaw has returned: the sourceFiles loop (a
\* TypeError on an empty slot, caught by main's catch) and
\* `await writeBatchMarkdownFiles(sourceFiles)`
MainAfterSources ==
  /\ mpc = "sources"
  /\ kind = "sources"
  /\ pc = "returned"
  /\ summaries' = results
  /\ IF \E k \in DOMAIN results : results[k] = Hole
     THEN /\ mpc' = "done"
          /\ UNCHANGED <<plVars, job, hist>>
     ELSE /\ mpc' = "files"
          /\ PLInvoke(SourceFiles(results), FileCap, "files")
          /\ TrackStage
  /\ UNCHANGED <<feedLimit, allArticles, sourcesData, globalInput, written, cacheVars>>

\* writeBatchMarkdownFiles has returned:
\* `await aiProcessor.generateGlobalSummary(sourceSummariesWithContent, dateISO)`
MainAfterFiles ==
  /\ mpc = "files"
  /\ kind = "files"
  /\ pc = "returned"
  /\ mpc' = "global"
  /\ globalInput' = GlobalSections(summaries)
  /\ hist' = [hist EXCEPT !["global"] =
                [invoked |-> TRUE, total |-> 1, started |-> hist["global"].started + 1,
                 settled |-> 0, failed |-> 0, tries |-> <<1>>]]
  /\ UNCHANGED <<plVars, jobVars, allArticles, summaries, sourcesData, written, cacheVars>>

\* The global generation call settles: on success main goes on to write the
\* global summary, on failure to its catch.
GlobalSettle ==
  /\ mpc = "global"
  /\ \E ok \in BOOLEAN :
       /\ mpc' = IF ok THEN "openGlobal" ELSE "done"
       /\ hist' = [hist EXCEPT !["global"].settled = 1,
                                !["global"].failed = IF ok THEN 0 ELSE 1]
  /\ UNCHANGED <<plVars, jobVars, allArticles, summaries, sourcesData, globalInput, written, cacheVars>>

\* `await writeMarkdownFile(.../global_summary.md, globalSummary)`: the file
\* is opened, which creates or truncates it; a failure goes to main's catch,
\* and main completes.
OpenGlobal ==
  /\ mpc = "openGlobal"
  /\ \E ok \in BOOLEAN :
       /\ mpc' = IF ok THEN "writeGlobal" ELSE "done"
       /\ written' = IF ok THEN WriteOut(written, GlobalPath, Truncated) ELSE written
  /\ UNCHANGED <<plVars, jobVars, allArticles, summaries, sourcesData, globalInput, hist, cacheVars>>

\* The global summary is written; a write that fails leaves in the file
\* what it wrote before it failed.  fs.writeFile goes on to close the file.
WriteGlobal ==
  /\ mpc = "writeGlobal"
  /\ mpc' = "closeGlobal"
  /\ \E wr \in WriteOutcomes :
       written' = WriteOut(written, GlobalPath,
                           WriteFile(FileAt(written, GlobalPath),
                                     Utf8(GlobalSummary(globalInput)), wr))
  /\ UNCHANGED <<plVars, jobVars, allArticles, summaries, sourcesData, globalInput, hist, cacheVars>>

\* The file is closed and writeMarkdownFile settles: main logs the end of
\* the run, after its catch if the write failed.
CloseGlobal ==
  /\ mpc = "closeGlobal"
  /\ mpc' = "done"
  /\ UNCHANGED <<plVars, jobVars, allArticles, summaries, sourcesData, globalInput, written, hist, cacheVars>>

\* `catch (e) { console.error(...) }`: a stage inside the try has thrown
MainCatch ==
  /\ mpc \in {"sources", "files"}
  /\ pc = "thrown"
  /\ mpc' = "done"
  /\ UNCHANGED <<plVars, jobVars, allArticles, summaries, sourcesData, globalInput, written, hist, cacheVars>>

\* One run of main from an empty cache.  The lists of a run stay below the
\* caps, so the executor's loop never waits at Promise.race.
NextMain ==
  \/ MainStart /\ UNCHANGED funVars
  \/ MainAfterFeeds /\ UNCHANGED funVars
  \/ MainAfterArticles /\ UNCHANGED funVars
  \/ MainAfterSources /\ UNCHANGED funVars
  \/ MainAfterFiles /\ UNCHANGED funVars
  \/ GlobalSettle /\ UNCHANGED funVars
  \/ OpenGlobal /\ UNCHANGED funVars
  \/ WriteGlobal /\ UNCHANGED funVars
  \/ CloseGlobal /\ UNCHANGED funVars
  \/ MainCatch /\ UNCHANGED funVars
  \/ \E k \in DOMAIN fnp : FeedSettle(k) /\ TrackStage /\ UNCHANGED <<mpc, allArticles, summaries, sourcesData, globalInput, written, cacheVars>> /\ UNCHANGED funVars
  \/ \E k \in DOMAIN fnp : ArtGet(k) /\ TrackStage /\ UNCHANGED <<mpc, allArticles, summaries, sourcesData, globalInput, written>> /\ UNCHANGED funVars
  \/ \E k \in DOMAIN fnp : ArtTest(k) /\ TrackStage /\ UNCHANGED <<mpc, allArticles, summaries, sourcesData, globalInput, written>> /\ UNCHANGED funVars
  \/ \E k \in DOMAIN fnp : ArtNet(k) /\ TrackStage /\ UNCHANGED <<mpc, allArticles, summaries, sourcesData, globalInput, written>> /\ UNCHANGED funVars
  \/ \E k \in DOMAIN fnp : ArtBody(k) /\ TrackStage /\ UNCHANGED <<mpc, allArticles, summaries, sourcesData, globalInput, written>> /\ UNCHANGED funVars
  \/ \E k \in DOMAIN fnp : ArtMkdir(k) /\ TrackStage /\ UNCHANGED <<mpc, allArticles, summaries, sourcesData, globalInput, written>> /\ UNCHANGED funVars
  \/ \E k \in DOMAIN fnp : ArtStamp(k) /\ TrackStage /\ UNCHANGED <<mpc, allArticles, summaries, sourcesData, globalInput, written>> /\ UNCHANGED funVars
  \/ \E k \in DOMAIN fnp : ArtOpen(k) /\ TrackStage /\ UNCHANGED <<mpc, allArticles, summaries, sourcesData, globalInput, written>> /\ UNCHANGED funVars
  \/ \E k \in DOMAIN fnp : ArtWrite(k) /\ TrackStage /\ UNCHANGED <<mpc, allArticles, summaries, sourcesData, globalInput, written>> /\ UNCHANGED funVars
  \/ \E k \in DOMAIN fnp : ArtClose(k) /\ TrackStage /\ UNCHANGED <<mpc, allArticles, summaries, sourcesData, globalInput, written>> /\ UNCHANGED funVars
  \/ \E k \in DOMAIN fnp : SourceSettle(k) /\ TrackStage /\ UNCHANGED <<mpc, allArticles, summaries, sourcesData, globalInput, written, cacheVars>> /\ UNCHANGED funVars
  \/ \E k \in DOMAIN fnp : FileOpen(k) /\ TrackStage /\ UNCHANGED <<mpc, allArticles, summaries, sourcesData, globalInput, cacheVars>> /\ UNCHANGED funVars
  \/ \E k \in DOMAIN fnp : FileWrite(k) /\ TrackStage /\ UNCHANGED <<mpc, allArticles, summaries, sourcesData, globalInput, cacheVars>> /\ UNCHANGED funVars
  \/ \E k \in DOMAIN fnp : FileSettle(k) /\ TrackStage /\ UNCHANGED <<mpc, allArticles, summaries, sourcesData, globalInput, written, cacheVars>> /\ UNCHANGED funVars
  \/ \E k \in DOMAIN fnp : ThenJob(k) /\ UNCHANGED <<jobVars, cacheVars, mainVars, funVars>>
  \/ \E k \in DOMAIN fnp : FinallyJob(k) /\ UNCHANGED <<jobVars, cacheVars, mainVars, funVars>>
  \/ \E k \in DOMAIN fnp : ChainSettle(k) /\ UNCHANGED <<jobVars, cacheVars, mainVars, funVars>>
  \/ \E k \in DOMAIN fnp : Reaction(k) /\ UNCHANGED <<jobVars, cacheVars, mainVars, funVars>>
  \/ ResumeAll /\ UNCHANGED <<jobVars, cacheVars, mainVars, funVars>>
  \/ Throw /\ UNCHANGED <<jobVars, cacheVars, mainVars, funVars>>

SpecMain == InitPL /\ [][NextMain]_vars

\* ------------------------------------------------------------------------
\* The grouping of main, on its own
\* ------------------------------------------------------------------------
\* What main may hold when fetchAllArticles has returned: the discovered
\* articles and, for each, a result (fetchArticle never rejects, so that
\* fetchAllArticles leaves no slot empty).
GroupArticles == [url : Urls, title : {"T"}, feedUrl : FeedUrls]
\* The text of the page of a url, when its scrape yields text.
PageText(url) == IF url = "a1" THEN <<Run("a", 1)>> ELSE <<Run("b", 2)>>
\* What fetchAllArticles may hold at the index of each url: the empty text
\* of a failed or empty scrape, or the text of the page.
TextsFor(a) ==
  {[k \in 1..Len(a) |->
      [t |-> "article", url |-> a[k].url,
       text |-> IF c[k] = "empty" THEN EmptyText ELSE PageText(a[k].url)]] :
     c \in [1..Len(a) -> {"empty", "text"}]}
GroupInputs(n) ==
  UNION {{[t |-> "group", arts |-> a, texts |-> x] : x \in TextsFor(a)} :
           a \in [1..n -> GroupArticles]}

\* main, lines 85-118: validArticles, validTexts and the grouping
Grouping(arts, texts) == SourcesData(ValidArticles(arts, texts), ValidTexts(texts))

InitGroup ==
  /\ PLIdle
  /\ InitCache /\ dir = FALSE
  /\ \E n \in 0..MaxGroupArts : arg \in GroupInputs(n)
  /\ out = NoArg

Group ==
  /\ arg.t = "group"
  /\ out = NoArg
  /\ out' = [t |-> "groups", groups |-> Grouping(arg.arts, arg.texts)]
  /\ UNCHANGED arg

NextGroup ==
  \/ Group /\ UNCHANGED <<plVars, jobVars, cacheVars, mainVars>>

SpecGroup == InitGroup /\ [][NextGroup]_vars

\* ------------------------------------------------------------------------
\* cleanup run again and again, on its own
\* ------------------------------------------------------------------------
\* The storage a maintenance task may find: per key nothing, an unusable file
\* or an entry stored at instant 0 or 1, at any instant of the clock.
StoredEntries == {JSONStringify(SetData(text, t)) : text \in Texts, t \in {0, 1}}

InitCleanup ==
  /\ PLIdle
  /\ FunIdle
  /\ now \in Instants
  /\ dir \in BOOLEAN
  /\ files \in [FileNames -> {Absent, Garbage, Unreadable} \cup StoredEntries]
  /\ ~dir => \A f \in FileNames : files[f] = Absent
  /\ last = NoCall
  /\ calls = <<>>

\* cleanup() is called once more.
CleanupAgain == Start(CleanupCall, MaxCleanupRuns)

NextCleanup ==
  \/ CleanupAgain /\ UNCHANGED Rest
  \/ \E k \in DOMAIN calls : CleanupLists(k) /\ UNCHANGED Rest
  \/ \E k \in DOMAIN calls : CleanupStamps(k) /\ UNCHANGED Rest
  \/ \E k \in DOMAIN calls : CleanupReads(k) /\ UNCHANGED Rest
  \/ \E k \in DOMAIN calls : CleanupUnlinks(k) /\ UNCHANGED Rest

SpecCleanup == InitCleanup /\ [][NextCleanup]_vars

\* ------------------------------------------------------------------------
\* The cache between its two windows
\* ------------------------------------------------------------------------

\* The entries of the cache at the start: the windows test the timestamp of
\* an entry, whatever its text.
WindowEntries == {JSONStringify(SetData(<<Run("a", 1)>>, t)) : t \in {0, 1}}

\* A cache with entries stored at instant 0 or 1, met at instant 0 (from
\* which the clock goes on to any of its instants) or seven hours later.
InitWindows ==
  /\ PLIdle
  /\ FunIdle
  /\ now \in {0, SevenHours}
  /\ dir \in BOOLEAN
  /\ files \in [FileNames -> {Absent, Unreadable} \cup WindowEntries]
  /\ ~dir => \A f \in FileNames : files[f] = Absent
  /\ last = NoCall
  /\ calls = <<>>

NextWindows ==
  \/ Get /\ UNCHANGED Rest
  \/ Set /\ UNCHANGED Rest
  \/ Cleanup /\ UNCHANGED Rest
  \/ \E k \in DOMAIN calls : GetReads(k) /\ UNCHANGED Rest
  \/ \E k \in DOMAIN calls : GetReturns(k) /\ UNCHANGED Rest
  \/ \E k \in DOMAIN calls : SetMakesDir(k) /\ UNCHANGED Rest
  \/ \E k \in DOMAIN calls : SetStamps(k) /\ UNCHANGED Rest
  \/ \E k \in DOMAIN calls : SetOpens(k) /\ UNCHANGED Rest
  \/ \E k \in DOMAIN calls : SetWrites(k) /\ UNCHANGED Rest
  \/ \E k \in DOMAIN calls : SetCloses(k) /\ UNCHANGED Rest
  \/ \E k \in DOMAIN calls : CleanupLists(k) /\ UNCHANGED Rest
  \/ \E k \in DOMAIN calls : CleanupStamps(k) /\ UNCHANGED Rest
  \/ \E k \in DOMAIN calls : CleanupReads(k) /\ UNCHANGED Rest
  \/ \E k \in DOMAIN calls : CleanupUnlinks(k) /\ UNCHANGED Rest

SpecWindows == InitWindows /\ [][NextWindows]_vars

\* ------------------------------------------------------------------------
\* The extraction of fetchArticleText, on its own
\* ------------------------------------------------------------------------
\* The text of a region of the page: none (the region is absent or empty),
\* white space only, or text with or without white space around it.
RegionTexts ==
  {EmptyText, <<Run(" ", 2)>>, <<Run(" ", 1), Run("a", 1), Run(" ", 1)>>, <<Run("b", 2)>>}
ExtractInputs == {Page(a, m, b) : a \in RegionTexts, m \in RegionTexts, b \in RegionTexts}

InitExtract ==
  /\ PLIdle
  /\ InitCache /\ dir = FALSE
  /\ arg \in ExtractInputs
  /\ out = NoArg

ExtractText ==
  /\ arg.k = "page"
  /\ out = NoArg
  /\ out' = [t |-> "text", text |-> Extract(arg)]
  /\ UNCHANGED arg

NextExtract ==
  \/ ExtractText /\ UNCHANGED <<plVars, jobVars, cacheVars, mainVars>>

SpecExtract == InitExtract /\ [][NextExtract]_vars

\* ------------------------------------------------------------------------
\* Concurrent calls of ArticleCache.set
\* ------------------------------------------------------------------------
\* The calls of set that are pending together, over a cache that holds
\* nothing or an entry of an earlier run.
InitWriters ==
  /\ PLIdle
  /\ FunIdle
  /\ now = 1
  /\ dir \in BOOLEAN
  /\ files \in [FileNames -> {Absent, JSONStringify(SetData(<<Run("a", 1)>>, 0))}]
  /\ ~dir => \A f \in FileNames : files[f] = Absent
  /\ last = NoCall
  /\ calls = <<>>

\* set(url, text) is called, by a caller that does not wait for the pending
\* calls to return.
SetConcurrently == \E url \in Urls, text \in Texts : Start(SetCall(url, text), MaxWriters)

NextWriters ==
  \/ SetConcurrently /\ UNCHANGED Rest
  \/ \E k \in DOMAIN calls : SetMakesDir(k) /\ UNCHANGED Rest
  \/ \E k \in DOMAIN calls : SetStamps(k) /\ UNCHANGED Rest
  \/ \E k \in DOMAIN calls : SetOpens(k) /\ UNCHANGED Rest
  \/ \E k \in DOMAIN calls : SetWrites(k) /\ UNCHANGED Rest
  \/ \E k \in DOMAIN calls : SetCloses(k) /\ UNCHANGED Rest

SpecWriters == InitWriters /\ [][NextWriters]_vars

\* ------------------------------------------------------------------------
\* The batches when every started transform settles
\* ------------------------------------------------------------------------
\* The lists on which fetchAllFeeds and fetchAllArticles are followed to
\* their end.
BatchFeedLists == {<<"fA">>, <<"fA", "fB">>}
BatchArticleLists == {<<"a1">>, <<"a1", "a2">>, <<"a1", "a1">>}

BatchFeedsCall ==
  /\ pc = "idle"
  /\ \E urls \in BatchFeedLists : FetchAllFeeds(urls, FeedItemLimit)

BatchArticlesCall ==
  /\ pc = "idle"
  /\ \E urls \in BatchArticleLists : FetchAllArticles(urls)
  /\ UNCHANGED feedLimit

\* The steps of a batch, each with what it leaves alone.
TransformSettles(k) ==
  (FnFulfil(k) \/ FnReject(k)) /\ UNCHANGED <<jobVars, cacheVars, mainVars, funVars>>
FeedSettles(k) == FeedSettle(k) /\ UNCHANGED <<cacheVars, mainVars, funVars>>
ArticleGets(k) == ArtGet(k) /\ UNCHANGED <<mainVars, funVars>>
ArticleTests(k) == ArtTest(k) /\ UNCHANGED <<mainVars, funVars>>
ArticleRequests(k) == ArtNet(k) /\ UNCHANGED <<mainVars, funVars>>
ArticleBodies(k) == ArtBody(k) /\ UNCHANGED <<mainVars, funVars>>
ArticleMakesDir(k) == ArtMkdir(k) /\ UNCHANGED <<mainVars, funVars>>
ArticleStamps(k) == ArtStamp(k) /\ UNCHANGED <<mainVars, funVars>>
ArticleOpens(k) == ArtOpen(k) /\ UNCHANGED <<mainVars, funVars>>
ArticleWrites(k) == ArtWrite(k) /\ UNCHANGED <<mainVars, funVars>>
ArticleCloses(k) == ArtClose(k) /\ UNCHANGED <<mainVars, funVars>>
ThenJobs(k) == ThenJob(k) /\ UNCHANGED <<jobVars, cacheVars, mainVars, funVars>>
FinallyJobs(k) == FinallyJob(k) /\ UNCHANGED <<jobVars, cacheVars, mainVars, funVars>>
ChainSettles(k) == ChainSettle(k) /\ UNCHANGED <<jobVars, cacheVars, mainVars, funVars>>
Reactions(k) == Reaction(k) /\ UNCHANGED <<jobVars, cacheVars, mainVars, funVars>>
RaceResumes == ResumeRace /\ UNCHANGED <<jobVars, cacheVars, mainVars, funVars>>
AllResumes == ResumeAll /\ UNCHANGED <<jobVars, cacheVars, mainVars, funVars>>
Throws == Throw /\ UNCHANGED <<jobVars, cacheVars, mainVars, funVars>>

NextBatches ==
  \/ PLCall /\ UNCHANGED cacheVars /\ UNCHANGED <<mainVars, funVars>>
  \/ BatchFeedsCall /\ UNCHANGED cacheVars /\ UNCHANGED <<mainVars, funVars>>
  \/ BatchArticlesCall /\ UNCHANGED cacheVars /\ UNCHANGED <<mainVars, funVars>>
  \/ \E k \in 1..MaxItems : TransformSettles(k)
  \/ \E k \in 1..MaxItems : FeedSettles(k)
  \/ \E k \in 1..MaxItems : ArticleGets(k)
  \/ \E k \in 1..MaxItems : ArticleTests(k)
  \/ \E k \in 1..MaxItems : ArticleRequests(k)
  \/ \E k \in 1..MaxItems : ArticleBodies(k)
  \/ \E k \in 1..MaxItems : ArticleMakesDir(k)
  \/ \E k \in 1..MaxItems : ArticleStamps(k)
  \/ \E k \in 1..MaxItems : ArticleOpens(k)
  \/ \E k \in 1..MaxItems : ArticleWrites(k)
  \/ \E k \in 1..MaxItems : ArticleCloses(k)
  \/ \E k \in 1..MaxItems : ThenJobs(k)
  \/ \E k \in 1..MaxItems : FinallyJobs(k)
  \/ \E k \in 1..MaxItems : ChainSettles(k)
  \/ \E k \in 1..MaxItems : Reactions(k)
  \/ RaceResumes
  \/ AllResumes
  \/ Throws

\* Every started transform eventually settles: an await of a transform that
\* can complete does complete.
TransformsSettle ==
  \A k \in 1..MaxItems :
    /\ WF_vars(TransformSettles(k))
    /\ WF_vars(FeedSettles(k))
    /\ WF_vars(ArticleGets(k))
    /\ WF_vars(ArticleTests(k))
    /\ WF_vars(ArticleRequests(k))
    /\ WF_vars(ArticleBodies(k))
    /\ WF_vars(ArticleMakesDir(k))
    /\ WF_vars(ArticleStamps(k))
    /\ WF_vars(ArticleOpens(k))
    /\ WF_vars(ArticleWrites(k))
    /\ WF_vars(ArticleCloses(k))

\* The event loop runs every reaction that is ready: the callbacks chained
\* on a settled transform and the resumption of a settled await.
ReactionsRun ==
  /\ \A k \in 1..MaxItems :
       /\ WF_vars(ThenJobs(k)) /\ WF_vars(FinallyJobs(k)) /\ WF_vars(ChainSettles(k))
       /\ WF_vars(Reactions(k))
  /\ WF_vars(RaceResumes)
  /\ WF_vars(AllResumes)
  /\ WF_vars(Throws)

SpecBatches == InitPL /\ [][NextBatches]_vars /\ TransformsSettle /\ ReactionsRun

\* ------------------------------------------------------------------------
\* Properties of parallelLimit (SpecPL)
\* ------------------------------------------------------------------------
InFlight == {k \in DOMAIN fnp : fnp[k] = "pending"}
Failed == {k \in DOMAIN fnp : fnp[k] = "rejected"}
AllSucceeded == \A k \in DOMAIN fnp : fnp[k] = "fulfilled"

\* C1: when parallelLimit returns and every transform succeeded, the result
\* list has the length of the input and results[k] is the value fn produced
\* for items[k], whatever the order in which the transforms completed.
C1_OutputOrderIsInputOrder ==
  (pc = "returned" /\ AllSucceeded) =>
     /\ DOMAIN results = 1..Len(items)
     /\ \A k \in 1..Len(items) : results[k] = Fn(items[k])

\* C1 witness: a returned call on three inputs, the first two different, whose
\* transforms completed in an order that is not the input order.
C1_Witness ==
  /\ pc = "returned"
  /\ AllSucceeded
  /\ Len(items) = 3
  /\ items[1] # items[2]
  /\ settled = <<2, 3, 1>>

\* C2: at every moment the number of transforms started and not yet settled
\* is at most the limit.
C2_AtMostLimitInFlight == Cardinality(InFlight) <= limit

\* C2 witness: the limit is binding: as many transforms in flight as the limit
\* allows while an input is still waiting to be started.
C2_Witness ==
  /\ pc = "race"
  /\ Cardinality(InFlight) = limit
  /\ limit = 2
  /\ \E k \in DOMAIN fnp : fnp[k] = "unstarted"

\* C3: parallelLimit never completes successfully when a transform it started
\* has failed (the claim as stated; the code violates it).
C3_FailureNeverSwallowed == pc = "returned" => Failed = {}

\* ------------------------------------------------------------------------
\* Properties of ArticleCache (SpecStore)
\* ------------------------------------------------------------------------
\* The properties of one call are stated at the step at which the call
\* returns.  A call that was alone found the storage as calls[k].before and
\* no other call touched it since.
Returns(k, op) ==
  /\ k \in DOMAIN calls
  /\ calls[k].op = op
  /\ calls[k].step # "done"
  /\ calls'[k].step = "done"
Done(k, op) == calls[k].op = op /\ calls[k].step = "done"

\* The content is an entry: a JSON document with a timestamp that is a
\* number; its text and its timestamp.
IsEntry(content) == JSONParse(content).ok /\ JSONParse(content).stamped
EntryText(content) == JSONParse(content).text
EntryStamp(content) == JSONParse(content).timestamp
StoredEntry(url) == IsEntry(files[GetCachePath(url)])

\* C6: get(url) returns the stored entry if and only if a (readable, parsable)
\* entry is stored for hash(url) and now - entry.timestamp < 6h, now being
\* the clock get reads (c.at); in every other case it returns absent, the entry
\* staying on disk.  Under every interleaving an entry that get serves is the
\* content it read, younger than 6h at the clock it read.
C6_GetServesExactlyFreshEntries ==
  [][\A k \in DOMAIN calls :
       Returns(k, "get") =>
         LET c == calls'[k]
             e == files[GetCachePath(c.url)]
         IN /\ c.hit => /\ IsEntry(c.read)
                        /\ c.text = EntryText(c.read)
                        /\ c.timestamp = EntryStamp(c.read)
                        /\ c.at - c.timestamp < FRESH
            /\ c.alone =>
                 /\ c.hit <=> (IsEntry(e) /\ c.at - EntryStamp(e) < FRESH)
                 /\ c.hit => (c.text = EntryText(e) /\ c.timestamp = EntryStamp(e))
                 /\ files' = c.before]_vars

\* C6 witness: a get that returned absent for an entry exactly 6h old that is
\* still on disk.
C6_Witness ==
  /\ last.op = "get"
  /\ last.alone
  /\ ~last.hit
  /\ Pending = {}
  /\ StoredEntry(last.url)
  /\ last.at - EntryStamp(files[GetCachePath(last.url)]) = FRESH

C8_CleanupRemovesExactlyExpired ==
  [][\A k \in DOMAIN calls :
       Returns(k, "cleanup")
       => LET c == calls'[k]
          IN \A f \in FileNames :
               IF IsEntry(c.before[f]) /\ c.at - EntryStamp(c.before[f]) > RETAIN
               THEN files'[f] = Absent
               ELSE files'[f] = c.before[f] ]_vars

\* C8, corrected: when a cleanup() returns during which no other call was at
\* work, every entry that was older than 24h (at the clock cleanup read) is
\* removed unless its unlink failed, and every other file, an entry of
\* exactly 24h included, is as it was.
C8_CleanupRemovesExpiredItUnlinks ==
  [][\A k \in DOMAIN calls :
       (Returns(k, "cleanup") /\ calls'[k].alone)
       => LET c == calls'[k]
          IN \A f \in FileNames :
               IF /\ IsEntry(c.before[f])
                  /\ c.at - EntryStamp(c.before[f]) > RETAIN
                  /\ f \notin c.failing
               THEN files'[f] = Absent
               ELSE files'[f] = c.before[f] ]_vars

\* C8 witness: a cleanup removed an entry older than 24h and left another
\* one, whose unlink failed.
C8_Witness ==
  /\ last.op = "cleanup"
  /\ last.alone
  /\ Pending = {}
  /\ last.removed # {}
  /\ \E f \in last.failing :
       IsEntry(files[f]) /\ last.at - EntryStamp(files[f]) > RETAIN

\* C9: no cache failure surfaces, under any interleaving: get, set and
\* cleanup never throw; get returns absent when the directory or the file is
\* missing, unreadable or not JSON; fetchArticleText throws only for a failed
\* request or a response that is not ok, and returns the scraped text whether
\* or not its cache write succeeded.
C9_CacheFailuresNeverSurface ==
  \A k \in DOMAIN calls :
    LET c == calls[k]
    IN c.step = "done" =>
         /\ c.op \in {"get", "set", "cleanup"} => ~c.threw
         /\ (c.op = "get" /\ ~JSONParse(c.read).ok) => ~c.hit
         /\ (c.op = "fetchArticleText" /\ c.threw) => c.net \in {"error", "notok"}
         /\ (c.op = "fetchArticleText" /\ c.net = "page")
               => (~c.threw /\ c.text = c.scraped)

\* C9 witness: a fetchArticleText whose cache write failed returned the
\* non-empty text it scraped.
C9_Witness ==
  /\ last.op = "fetchArticleText"
  /\ last.net = "page"
  /\ ~last.stored
  /\ ~last.threw
  /\ last.text # EmptyText
  /\ last.text = last.scraped

\* ------------------------------------------------------------------------
\* Properties of fetchAllFeeds (SpecFeeds)
\* ------------------------------------------------------------------------
\* What fetchAllFeeds owes for input k: the url, and the first feedLimit items
\* of the parsed feed, or no items when the feed failed to parse.
FeedEntryOk(k) ==
  LET r == results[k]
      p == job[k].parsed
  IN /\ r.t = "feed"
     /\ r.url = items[k]
     /\ IF ~p.ok THEN r.items = <<>>
        ELSE /\ Len(r.items) = Min(feedLimit, Len(p.items))
             /\ \A j \in 1..Len(r.items) : r.items[j] = p.items[j]

\* C4: fetchAllFeeds(urls) never fails; it completes with exactly one entry
\* per input url, in input order, entry k carrying urls[k] and no items if
\* that feed failed to parse, the feed's limited items otherwise; an entry
\* depends on its own feed only.
C4_FetchAllFeedsIsolatesFailures ==
  kind = "feeds" =>
    /\ pc # "thrown"
    /\ awaited # "rejected"
    /\ Failed = {}
    /\ pc = "returned" =>
         /\ DOMAIN results = 1..Len(items)
         /\ \A k \in 1..Len(items) : FeedEntryOk(k)

\* A returned batch of two feeds, the second settled first: the first failed
\* to parse, the second parsed with more items than the limit.
C4_Witness ==
  /\ kind = "feeds"
  /\ pc = "returned"
  /\ Len(items) = 2
  /\ settled = <<2, 1>>
  /\ ~job[1].parsed.ok
  /\ results[1].items = <<>>
  /\ job[2].parsed.ok
  /\ Len(job[2].parsed.items) > feedLimit
  /\ Len(results[2].items) = feedLimit

\* ------------------------------------------------------------------------
\* Properties of fetchAllArticles (SpecArticles)
\* ------------------------------------------------------------------------
\* What fetchAllArticles owes for input k: the url, and the text obtained for
\* it (from the cache or from the page), "" when the fetch failed.
ArticleEntryOk(k) ==
  LET r == results[k]
  IN /\ r.t = "article"
     /\ r.url = items[k]
     /\ (r.text = EmptyText) <=> (job[k].how = "failed" \/ job[k].text = EmptyText)
     /\ job[k].how # "failed" => r.text = job[k].text

\* C5: fetchAllArticles(urls) never fails; it completes with exactly one
\* {url, text} entry per input url, in input order, with text = "" exactly
\* for the entries whose fetch failed or whose extraction was empty, and the
\* other entries carrying their own text.
C5_FetchAllArticlesIsolatesFailures ==
  kind = "articles" =>
    /\ pc # "thrown"
    /\ awaited # "rejected"
    /\ Failed = {}
    /\ pc = "returned" =>
         /\ DOMAIN results = 1..Len(items)
         /\ \A k \in 1..Len(items) : ArticleEntryOk(k)

\* A returned batch of two urls, the second settled first: the first fetch
\* failed and has text "", the second was scraped and has its text.
C5_Witness ==
  /\ kind = "articles"
  /\ pc = "returned"
  /\ Len(items) = 2
  /\ settled = <<2, 1>>
  /\ job[1].how = "failed"
  /\ results[1].text = EmptyText
  /\ job[2].how = "scraped"
  /\ results[2].text # EmptyText


\* ------------------------------------------------------------------------
\* Properties of main's pipeline (SpecMain)
\* ------------------------------------------------------------------------
\* Every call of stage s has been started and has settled.
StageDone(s) == hist[s].invoked /\ hist[s].settled = hist[s].total

\* This step starts a call of stage s.
Starts(s) == hist'[s].started > hist[s].started

\* C10: the stages are strictly sequential in every run: no article fetch
\* starts before every feed fetch has settled, no per-source generation call
\* starts before every article fetch has settled, and the global generation
\* call starts only after every per-source generation call has completed.
C10_StagesStrictlySequential ==
  [][/\ Starts("articles") => StageDone("feeds")
     /\ Starts("sources") => StageDone("articles")
     /\ Starts("global") => StageDone("sources")]_vars

\* A run that went through every stage with several calls in each and has
\* started the global generation call.
C10_Witness ==
  /\ mpc = "global"
  /\ hist["global"].started = 1
  /\ hist["feeds"].total = 2
  /\ hist["articles"].total >= 3
  /\ hist["sources"].total = 2
  /\ StageDone("feeds") /\ StageDone("articles") /\ StageDone("sources")


\* A generation-service call of the run has failed, at the per-source stage
\* or at the global stage.
GenerationFailed == hist["sources"].failed > 0 \/ hist["global"].failed > 0

\* C11: when a generation-service call fails at the per-source stage or at
\* the global stage, the run does not complete successfully: main never
\* reaches its normal end, which logs the completion and leaves exit code 0.
C11_SummarizationFailureFailsRun ==
  GenerationFailed => mpc # "done"

\* C12: when a generation-service call fails at the per-source stage or at
\* the global stage, the run writes no summary file, neither a
\* <hostname>_summary.md nor global_summary.md.
C12_NoOutputAfterSummarizationFailure ==
  GenerationFailed => written = {}

\* C13: the global generation call is made at most once per run, only after
\* every per-source summary succeeded, with exactly one section per source
\* group, in the order of the groups; it is never made when a per-source
\* summarization failed.
C13_GlobalCallOnceOverAllSummaries ==
  /\ hist["global"].started <= 1
  /\ hist["sources"].failed > 0 => ~hist["global"].invoked
  /\ hist["global"].invoked =>
       /\ StageDone("sources")
       /\ Len(globalInput) = Len(sourcesData)
       /\ \A j \in 1..Len(sourcesData) :
            /\ globalInput[j].hostname = Hostname(sourcesData[j].feedUrl)
            /\ globalInput[j].count = Len(sourcesData[j].articles)
            /\ globalInput[j].summary = Summary(sourcesData[j].feedUrl)

\* The global call made over two source groups whose summaries arrived in
\* the reverse order.
C13_Witness ==
  /\ hist["global"].invoked
  /\ Len(sourcesData) = 2
  /\ Len(globalInput) = 2
  /\ Len(sourcesData[1].articles) = 2
  /\ mpc = "writeGlobal"

\* Every feed of the run failed or had no item with both a title and a link.
NoValidItem ==
  /\ kind = "feeds"
  /\ pc = "returned"
  /\ \A k \in DOMAIN job :
       \/ ~job[k].parsed.ok
       \/ \A j \in 1..Min(FeedItemLimit, Len(job[k].parsed.items)) :
            job[k].parsed.items[j].link = "" \/ job[k].parsed.items[j].title = ""

\* main is past the feed stage and has discovered no article.
PastFeeds == hist["feeds"].invoked /\ mpc # "feeds"
ZeroDiscovered == PastFeeds /\ allArticles = <<>>

\* C14: a run that discovers no article ends early and successfully:
\* fetchAllArticles is not called, no generation call is made and no summary
\* file is written.
C14_ZeroArticlesEndsEarly ==
  /\ NoValidItem /\ PastFeeds => ZeroDiscovered
  /\ ZeroDiscovered =>
       /\ mpc = "done"
       /\ ~hist["articles"].invoked
       /\ ~hist["sources"].invoked
       /\ ~hist["global"].invoked
       /\ written = {}

\* A finished run of two feeds, one with items that lack a title or a link
\* and one failed.
C14_Witness ==
  /\ ZeroDiscovered
  /\ NoValidItem
  /\ mpc = "done"
  /\ Len(items) = 2
  /\ job[1].parsed.ok /\ Len(job[1].parsed.items) = 2
  /\ ~job[2].parsed.ok


\* ------------------------------------------------------------------------
\* Properties of the grouping (SpecGroup)
\* ------------------------------------------------------------------------
\* The positions of the discovered articles whose scraped text is not empty.
Kept(arts, texts) ==
  {k \in 1..Len(arts) : texts[k].t # "hole" /\ texts[k].text # EmptyText}

\* The articles with text of feed f, in discovery order.
EntriesOf(arts, texts, f) ==
  LET idx == SelectSeq([k \in 1..Len(arts) |-> k],
                       LAMBDA k : k \in Kept(arts, texts) /\ arts[k].feedUrl = f)
  IN [j \in 1..Len(idx) |->
        [title |-> arts[idx[j]].title, url |-> arts[idx[j]].url,
         text |-> texts[idx[j]].text]]

\* C15: grouping is a partition by feedUrl: every article with non-empty text
\* is in exactly one group, the group of its own feedUrl, in discovery order;
\* no article with empty text is in a group; no group is empty; there is one
\* group per feedUrl that has an article with text.
C15_GroupingIsPartitionByFeed ==
  out.t = "groups" =>
    LET arts == arg.arts
        texts == arg.texts
        gs == out.groups
    IN /\ \A a, b \in DOMAIN gs : gs[a].feedUrl = gs[b].feedUrl => a = b
       /\ {gs[a].feedUrl : a \in DOMAIN gs} = {arts[k].feedUrl : k \in Kept(arts, texts)}
       /\ \A a \in DOMAIN gs :
            /\ gs[a].articles # <<>>
            /\ gs[a].articles = EntriesOf(arts, texts, gs[a].feedUrl)

\* The articles of feeds X, Y, X of which the one of Y has no text: one
\* group, that of X with its two articles in discovery order, and none for Y.
C15_Witness ==
  /\ out.t = "groups"
  /\ Len(arg.arts) = 3
  /\ arg.arts[1].feedUrl = "fA" /\ arg.arts[2].feedUrl = "fB" /\ arg.arts[3].feedUrl = "fA"
  /\ arg.arts[1].url = "a2" /\ arg.arts[3].url = "a1"
  /\ Kept(arg.arts, arg.texts) = {1, 3}
  /\ Len(out.groups) = 1
  /\ Len(out.groups[1].articles) = 2
  /\ out.groups[1].articles[1].url = "a2"


\* ------------------------------------------------------------------------
\* Properties of repeated cleanup (SpecCleanup)
\* ------------------------------------------------------------------------
\* The stored entries of fs that are older than 24h at clock t.
Expired(fs, t) == {f \in FileNames : IsEntry(fs[f]) /\ t - EntryStamp(fs[f]) > RETAIN}

\* Runs k - 1 and k of cleanup came one after the other with the clock
\* unchanged, the first without a failed deletion.
InSuccession(k) ==
  /\ k > 1
  /\ calls[k - 1].step = "done" /\ calls[k - 1].alone /\ calls[k - 1].failing = {}
  /\ calls'[k].alone
  /\ calls'[k].at = calls[k - 1].at

\* C16: cleanup is idempotent: with the clock unchanged, a first cleanup()
\* whose deletions do not fail removes every entry older than 24h and nothing
\* else, and a second cleanup() right after it leaves the storage as the
\* first left it.
C16_CleanupIdempotent ==
  [][\A k \in DOMAIN calls :
       (Returns(k, "cleanup") /\ InSuccession(k))
       => /\ \A f \in FileNames :
               calls'[k].before[f] =
                 IF f \in Expired(calls[k - 1].before, calls[k - 1].at) THEN Absent
                 ELSE calls[k - 1].before[f]
          /\ files' = calls'[k].before
          /\ calls'[k].removed = {} ]_vars

\* Two runs over a storage with two expired entries: the first removed both,
\* the second found nothing to remove.
C16_Witness ==
  /\ Len(calls) = 2
  /\ \A k \in {1, 2} : calls[k].step = "done" /\ calls[k].alone
  /\ calls[1].failing = {}
  /\ calls[2].at = calls[1].at
  /\ Expired(calls[1].before, calls[1].at) = FileNames
  /\ calls[1].removed = FileNames
  /\ \A f \in FileNames : files[f] = Absent

\* ------------------------------------------------------------------------
\* Properties of the two windows (SpecWindows)
\* ------------------------------------------------------------------------
\* The step is one of a call of op.
StepOf(k, op) ==
  /\ k \in DOMAIN calls
  /\ calls[k].op = op
  /\ calls'[k].step # calls[k].step

\* C17: the freshness and the retention windows are independent: get does not
\* return an entry that is 6h to 24h old (7h for one), yet the entry stays in
\* storage; under every interleaving no step of get changes the storage, a
\* step of set touches the file of its own key only, and no file disappears
\* but by cleanup.
C17_OnlyCleanupRemoves ==
  [][/\ \A k \in DOMAIN calls :
          /\ StepOf(k, "get") => (files' = files /\ dir' = dir)
          /\ Returns(k, "get") =>
               LET c == calls'[k]
               IN (IsEntry(c.read) /\ c.at - EntryStamp(c.read) >= FRESH)
                    => (~c.hit /\ (c.alone => files'[GetCachePath(c.url)] = c.read))
          /\ StepOf(k, "set") =>
               \A f \in FileNames \ {GetCachePath(calls[k].url)} : files'[f] = files[f]
     /\ \A f \in FileNames :
          (files[f] # Absent /\ files'[f] = Absent)
            => \E k \in DOMAIN calls : StepOf(k, "cleanup") /\ calls[k].step = "unlink"]_vars

\* get has just missed an entry that is seven hours old and still stored,
\* next to an entry of another key.
C17_Witness ==
  /\ last.op = "get"
  /\ last.alone
  /\ Pending = {}
  /\ last.at = now
  /\ ~last.hit
  /\ LET c == files[GetCachePath(last.url)]
     IN IsEntry(c) /\ now - EntryStamp(c) = SevenHours
  /\ \A f \in FileNames : IsEntry(files[f])

\* ------------------------------------------------------------------------
\* Properties of the extraction (SpecExtract)
\* ------------------------------------------------------------------------
\* C18: the extracted text is the first of the article, main and body texts
\* that is not empty once trimmed, trimmed; with no article and no main text
\* it is the body text, and the empty text when all three are empty.
C18_ExtractionFallback ==
  out.t = "text" =>
    LET a == Trim(arg.article)
        m == Trim(arg.main)
        b == Trim(arg.body)
    IN /\ a # EmptyText => out.text = a
       /\ (a = EmptyText /\ m # EmptyText) => out.text = m
       /\ (a = EmptyText /\ m = EmptyText) => out.text = b
       /\ (a = EmptyText /\ m = EmptyText /\ b = EmptyText) => out.text = EmptyText

\* A page whose article holds white space only and which has no main text:
\* the body text is extracted.
C18_Witness ==
  /\ out.t = "text"
  /\ arg.article = <<Run(" ", 2)>>
  /\ arg.main = EmptyText
  /\ arg.body = <<Run(" ", 1), Run("a", 1), Run(" ", 1)>>
  /\ out.text = <<Run("a", 1)>>


\* ------------------------------------------------------------------------
\* No retry (SpecMain)
\* ------------------------------------------------------------------------
\* No position of a fetching stage has been requested twice, and once the
\* feed stage is over every configured feed has been requested exactly once.
RequestedAtMostOnce ==
  /\ \A s \in {"feeds", "articles"} :
       \A k \in DOMAIN hist[s].tries : hist[s].tries[k] <= 1
  /\ StageDone("feeds") => \A k \in DOMAIN hist["feeds"].tries : hist["feeds"].tries[k] = 1

\* A failed feed or article is recorded as empty.
FailedIsEmpty ==
  \A k \in DOMAIN job :
    /\ (kind = "feeds" /\ job[k].step = "done" /\ ~job[k].parsed.ok)
         => (fnp[k] = "fulfilled" /\ fnval[k].items = <<>>)
    /\ (kind = "articles" /\ job[k].how = "failed")
         => (fnp[k] = "fulfilled" /\ fnval[k].text = EmptyText)

\* The article results, the failed fetches taken out.
Unfailed == [k \in DOMAIN results |-> IF job[k].how = "failed" THEN Hole ELSE results[k]]

\* C19: no retry: in a run every configured feed is fetched exactly once and
\* every discovered article occurrence at most once; a feed or article whose
\* fetch failed is recorded as empty, is not fetched again, and contributes no
\* article to the discovered articles or to any source group.
C19_NoRetry ==
  [][/\ RequestedAtMostOnce'
     /\ FailedIsEmpty'
     /\ (mpc = "feeds" /\ mpc' # "feeds") =>
          \A k \in DOMAIN job :
            ~job[k].parsed.ok =>
              \A j \in DOMAIN allArticles' : allArticles'[j].feedUrl # items[k]
     /\ (mpc = "articles" /\ mpc' = "sources") =>
          \A g \in DOMAIN sourcesData' :
            sourcesData'[g].articles =
              EntriesOf(allArticles, Unfailed, sourcesData'[g].feedUrl)]_vars

\* The source stage has started in a run where one of two feeds failed and,
\* of the other feed's two articles, one fetch failed.
C19_Witness ==
  /\ mpc = "sources"
  /\ hist["feeds"].tries = <<1, 1>>
  /\ Len(allArticles) = 2
  /\ \A j \in DOMAIN allArticles : allArticles[j].feedUrl = "fA"
  /\ hist["articles"].tries = <<1, 1>>
  /\ Len(sourcesData) = 1
  /\ Len(sourcesData[1].articles) = 1


\* ------------------------------------------------------------------------
\* Work conservation of parallelLimit (SpecPL)
\* ------------------------------------------------------------------------
\* The loop races every transform in flight, and a pending race one of
\* whose promises has settled is about to settle as the first of them did.
RaceIsAwake ==
  pc = "race" =>
    /\ \A k \in DOMAIN fnp : fnp[k] = "pending" => k \in awaitSet
    /\ (awaited = "pending" /\ \E k \in awaitSet : ~Unsettled(k))
         => \E k \in awaitSet :
              /\ \A j \in awaitSet : ~SettledBefore(j, k)
              /\ ENABLED (Reaction(k) /\ awaited' = prom[k])

\* The race settles as the first of its promises to settle did.
RaceSettlesOnFirst ==
  (pc = "race" /\ awaited = "pending" /\ awaited' # "pending")
    => \E k \in awaitSet :
         /\ ~Unsettled(k)
         /\ \A j \in awaitSet : ~SettledBefore(j, k)
         /\ awaited' = prom[k]

\* With a limit above the input length every transform is started by the
\* call itself, before anything is awaited.
FullParallelism ==
  (pc # "idle" /\ limit >= Len(items)) => \A k \in DOMAIN fnp : fnp[k] # "unstarted"

\* With limit 1 a transform is started only after the one before it has
\* completed.
Sequential ==
  limit = 1 =>
    \A k \in DOMAIN fnp :
      (k > 1 /\ fnp[k] # "unstarted") => (fnp[k - 1] = "fulfilled" /\ prom[k - 1] = "fulfilled")

\* parallelLimit with the event loop running every job that is ready, the
\* transforms being free never to complete.
SpecLoop == InitPL /\ [][NextPL]_vars /\ ReactionsRun

\* Once a transform the loop is racing has completed successfully while
\* inputs are queued, the next queued input is started (or the call throws,
\* another transform having failed first) by the jobs of the event loop
\* alone: no other transform needs to complete.
CompletionStartsNext ==
  \A n \in 1..MaxItems :
    (pc = "race" /\ i = n /\ n < Len(items) /\ \E k \in awaitSet : fnp[k] = "fulfilled")
      ~> ((n + 1 \in DOMAIN fnp /\ fnp[n + 1] # "unstarted") \/ pc = "thrown")

\* C20: parallelLimit is work-conserving: the loop resumes on the first
\* completion among the transforms in flight and then starts the next queued
\* input, whatever the other transforms in flight do (between the settlement
\* of a chained promise and the reaction of the race the race is still
\* pending, with its reaction ready); with a limit of at least the input
\* length all transforms start at once, with limit 1 they run one after the
\* other.
C20_WorkConserving ==
  /\ [][/\ RaceSettlesOnFirst
        /\ FullParallelism'
        /\ Sequential'
        /\ (pc = "race" /\ i' # i) =>
             /\ awaited = "fulfilled"
             /\ i < Len(items) => (fnp[i + 1] = "unstarted" /\ fnp'[i + 1] = "pending")]_vars
  /\ []RaceIsAwake
  /\ CompletionStartsNext

\* Limit 2 over three inputs: the first transform completed and the third
\* was started while the second is still in flight.
C20_Witness ==
  /\ kind = "generic"
  /\ limit = 2
  /\ Len(items) = 3
  /\ fnp = <<"fulfilled", "pending", "pending">>
  /\ pc = "race"
  /\ settled = <<1>>

\* ------------------------------------------------------------------------
\* Properties of concurrent cache writes (SpecWriters)
\* ------------------------------------------------------------------------
AllSetsDone == calls # <<>> /\ Pending = {}
WritersOf(url) == {k \in DOMAIN calls : calls[k].url = url}

\* A step of set(u1, t) leaves the file of every other url as it was, under
\* every interleaving of the pending calls.
WritesArePerKey ==
  [][\A f \in FileNames :
       files'[f] # files[f] =>
         \E k \in DOMAIN calls :
           calls'[k].step # calls[k].step /\ f = GetCachePath(calls[k].url)]_vars

\* C21: when the concurrent calls of set have all returned and every write
\* on a url succeeded, the cache holds for that url exactly one entry, the
\* document of one of the calls: of the one whose write finished last
\* (last-write-wins), whichever of the calls that is.
C21_LastWriteWins ==
  (AllSetsDone /\ \A k \in WritersOf(last.url) : calls[k].stored)
    => \E k \in WritersOf(last.url) : files[GetCachePath(last.url)] = SetDocument(calls[k])

\* ------------------------------------------------------------------------
\* Properties of fetchArticleText (SpecStore)
\* ------------------------------------------------------------------------
\* The file of url in fs holds an entry younger than 6h at the clock t.
FreshEntry(fs, url, t) ==
  /\ IsEntry(fs[GetCachePath(url)])
  /\ t - EntryStamp(fs[GetCachePath(url)]) < FRESH

\* The call of fetchArticleText that returns at this step was alone.
ScrapeReturns(k) == Returns(k, "fetchArticleText") /\ calls'[k].alone

\* C22: a call of fetchArticleText(url) made while an entry is stored for url
\* that is fresh at the clock get reads, no other call being at work, returns
\* exactly the stored text, makes no request, and leaves the storage as it
\* was: the entry keeps the timestamp of its write.
C22_FreshEntryServedUntouched ==
  [][\A k \in DOMAIN calls :
       (ScrapeReturns(k) /\ FreshEntry(calls'[k].before, calls'[k].url, calls'[k].at))
       => LET c == calls'[k]
          IN /\ ~c.threw
             /\ c.hit
             /\ c.net = "none"
             /\ c.text = EntryText(c.before[GetCachePath(c.url)])
             /\ files' = c.before
             /\ dir' = dir ]_vars

\* C22 witness: a fetchArticleText at instant 6h was served the non-empty
\* text of an entry written at instant 1, which is still stored with that
\* timestamp.
C22_Witness ==
  /\ last.op = "fetchArticleText"
  /\ last.alone
  /\ Pending = {}
  /\ last.hit
  /\ last.net = "none"
  /\ last.at = FRESH
  /\ last.text = <<Run("a", 1)>>
  /\ StoredEntry(last.url)
  /\ EntryStamp(files[GetCachePath(last.url)]) = 1

\* C23: a fetchArticleText that missed the cache and got a successful response
\* returns a text of at most 8000 characters, and the entry it wrote, when
\* the write was performed and no other call was at work, holds exactly the
\* text returned; every stored entry holds a text of at most 8000 characters,
\* after any sequence of calls (no entry is stored at the start, so every
\* entry is the outcome of a step that changed its file).
C23_ScrapedTextCappedAndStoredAsReturned ==
  [][/\ \A k \in DOMAIN calls :
          (Returns(k, "fetchArticleText") /\ calls'[k].net = "page")
          => LET c == calls'[k]
             IN /\ ~c.threw
                /\ StrLen(c.text) <= MaxTextLen
                /\ (c.alone /\ c.stored)
                     => files'[GetCachePath(c.url)] = JSONStringify(SetData(c.text, c.timestamp))
     /\ \A f \in FileNames :
          files'[f] # files[f] =>
            \A e \in {JSONParse(files'[f])} :
              (e.ok /\ e.stamped) => StrLen(e.text) <= MaxTextLen]_vars

\* C23 witness: a page whose cleaned text is longer than 8000 characters was
\* scraped, and the entry written holds the 8000 characters returned.
C23_Witness ==
  /\ last.op = "fetchArticleText"
  /\ last.alone
  /\ last.net = "page"
  /\ last.stored
  /\ StrLen(last.text) = MaxTextLen
  /\ StoredEntry(last.url)
  /\ EntryText(files[GetCachePath(last.url)]) = last.text

\* The request of the call failed (network error, timeout) or its response
\* was not ok.
RequestFailed(call) ==
  call.op = "fetchArticleText" /\ call.step = "done" /\ call.net \in {"error", "notok"}

\* C24: a fetchArticleText that missed the cache and whose request failed or
\* was answered with a response that is not ok throws and writes nothing: with
\* no other call at work the storage is as it was, and the next
\* fetchArticleText of the same url makes a request again.
C24_FailedFetchCachesNothing ==
  [][\A k \in DOMAIN calls :
       /\ (Returns(k, "fetchArticleText") /\ RequestFailed(calls'[k]))
          => (/\ calls'[k].threw
              /\ ~calls'[k].hit
              /\ ~calls'[k].stored
              /\ (calls'[k].alone => (files' = calls'[k].before /\ dir' = dir)))
       /\ (/\ ScrapeReturns(k) /\ k > 1
           /\ RequestFailed(calls[k - 1]) /\ calls[k - 1].alone
           /\ calls[k - 1].url = calls[k].url)
          => calls'[k].net # "none" ]_vars

\* C24 witness: a fetchArticleText found the entry that the call before it
\* had stored, stale by now, and was answered with a response that is not
\* ok; it threw, and the stale entry is stored as before.
C24_Witness ==
  /\ Len(calls) = 2
  /\ Done(1, "fetchArticleText") /\ calls[1].alone /\ calls[1].stored
  /\ RequestFailed(calls[2]) /\ calls[2].alone /\ calls[2].url = calls[1].url
  /\ calls[2].net = "notok"
  /\ calls[2].threw
  /\ IsEntry(calls[2].read)
  /\ calls[2].at - EntryStamp(calls[2].read) >= FRESH
  /\ files[GetCachePath(calls[2].url)] = calls[2].read

\* ------------------------------------------------------------------------
\* Properties of the grouping, continued (SpecGroup)
\* ------------------------------------------------------------------------
\* C25: whatever the scrapes that failed, the filtered article list and the
\* filtered text list have the same length and refer to the same url at each
\* index, and every article placed in a source group carries the text scraped
\* for its own url and comes from a discovered article of that group's feed.
C25_TextsStayWithTheirArticles ==
  out.t = "groups" =>
    LET arts == arg.arts
        texts == arg.texts
        va == ValidArticles(arts, texts)
        vt == ValidTexts(texts)
        gs == out.groups
    IN /\ Len(va) = Len(vt)
       /\ \A n \in DOMAIN va : va[n].url = vt[n].url
       /\ \A a \in DOMAIN gs : \A j \in DOMAIN gs[a].articles :
            LET e == gs[a].articles[j]
            IN /\ e.text = PageText(e.url)
               /\ \E k \in Kept(arts, texts) :
                    /\ arts[k].url = e.url
                    /\ arts[k].feedUrl = gs[a].feedUrl
                    /\ texts[k].text = e.text

\* C25 witness: of three articles of one feed the middle one failed to scrape
\* (an empty text), and the third, of another url than the first, is grouped
\* with its own text.
C25_Witness ==
  /\ out.t = "groups"
  /\ Len(arg.arts) = 3
  /\ arg.arts[1].url = "a1" /\ arg.arts[2].url = "a1" /\ arg.arts[3].url = "a2"
  /\ \A k \in 1..3 : arg.arts[k].feedUrl = "fA"
  /\ arg.texts[1].t = "article" /\ arg.texts[1].text = PageText("a1")
  /\ arg.texts[2].t = "article" /\ arg.texts[2].text = EmptyText
  /\ arg.texts[3].t = "article" /\ arg.texts[3].text = PageText("a2")
  /\ Len(out.groups) = 1
  /\ Len(out.groups[1].articles) = 2
  /\ out.groups[1].articles[2].url = "a2"
  /\ out.groups[1].articles[2].text = PageText("a2")

\* ------------------------------------------------------------------------
\* Properties of main, continued (SpecMain)
\* ------------------------------------------------------------------------
\* The summary file main builds for the source group of a summary.
FileOf(sum) == [path |-> SummaryPath(sum.feedUrl), content |-> Utf8(sum.summary)]

\* C26: when every per-source call succeeded and every summary file was
\* written, the output directory holds for each source group a file of its
\* own with that group's summary: no two groups share a file path.
C26_OneSummaryFilePerGroup ==
  (StageDone("files") /\ hist["files"].failed = 0 /\ hist["sources"].failed = 0)
    => /\ \A j \in DOMAIN summaries : FileOf(summaries[j]) \in written
       /\ \A j, k \in DOMAIN summaries :
            FileOf(summaries[j]).path = FileOf(summaries[k]).path => j = k

\* ------------------------------------------------------------------------
\* Properties of the two windows, continued (SpecWindows)
\* ------------------------------------------------------------------------
\* C27: cleanup is invisible to readers: for every storage content, every
\* url and every instant, get(url) answers the same just before and just
\* after a cleanup() during which no other call is at work; cleanup removes
\* no entry that get would serve.
C27_CleanupInvisibleToGet ==
  [][\A k \in DOMAIN calls :
       (Returns(k, "cleanup") /\ calls'[k].alone)
       => LET before == calls'[k].before
          IN /\ \A url \in Urls :
                  CacheGet(dir, files', now, url) = CacheGet(dir, before, now, url)
             /\ \A url \in Urls :
                  CacheGet(dir, before, now, url).hit
                    => files'[GetCachePath(url)] = before[GetCachePath(url)] ]_vars

\* C27 witness: a cleanup removed an entry while a fresh entry, which get
\* serves, is stored.
C27_Witness ==
  /\ last.op = "cleanup"
  /\ last.alone
  /\ Pending = {}
  /\ last.removed # {}
  /\ now = last.at
  /\ \E url \in Urls : CacheGet(dir, files, now, url).hit

\* C28: an empty extraction is cached like any other result: a
\* fetchArticleText whose response was successful and whose extracted text is
\* empty stores the empty text, and every fetchArticleText of a url whose
\* stored entry holds the empty text and is younger than 6h returns the empty
\* text from the cache, without a request (no other call being at work).
C28_EmptyExtractionIsCachedAndServed ==
  [][\A k \in DOMAIN calls :
       ScrapeReturns(k) =>
         LET c == calls'[k]
             f == GetCachePath(c.url)
         IN /\ (c.net = "page" /\ c.scraped = EmptyText /\ c.stored)
                 => files'[f] = JSONStringify(SetData(EmptyText, c.timestamp))
            /\ (FreshEntry(c.before, c.url, c.at) /\ EntryText(c.before[f]) = EmptyText)
                 => (/\ c.hit
                     /\ ~c.threw
                     /\ c.net = "none"
                     /\ c.text = EmptyText
                     /\ files' = c.before) ]_vars

\* C28 witness: a fetchArticleText stored the empty text it extracted, and
\* the next call for the url, within 6h, was served the empty text without a
\* request.
C28_Witness ==
  /\ Len(calls) = 2
  /\ Done(1, "fetchArticleText") /\ calls[1].alone
  /\ calls[1].net = "page" /\ calls[1].scraped = EmptyText /\ calls[1].stored
  /\ Done(2, "fetchArticleText") /\ calls[2].alone /\ calls[2].url = calls[1].url
  /\ calls[2].hit
  /\ calls[2].net = "none"
  /\ calls[2].text = EmptyText
  /\ calls[2].timestamp = calls[1].timestamp
  /\ StoredEntry(calls[2].url)
  /\ EntryText(files[GetCachePath(calls[2].url)]) = EmptyText

\* ------------------------------------------------------------------------
\* Properties of parallelLimit, continued (SpecPL)
\* ------------------------------------------------------------------------
Unstarted == {k \in DOMAIN fnp : fnp[k] = "unstarted"}
\* The awaited race or all has rejected: parallelLimit fails, now or at its
\* next step.
FailureReached == awaited = "rejected" \/ pc = "thrown"

\* C29: once a failed transform has rejected the race the loop was waiting
\* on, no input that was not started is ever started, and parallelLimit stays
\* failed; the transforms in flight are not cancelled: each can still settle
\* after parallelLimit has thrown, and its chained callbacks then run.
C29_FailureStopsStartsNotTransforms ==
  /\ [][ FailureReached
         => /\ \A k \in Unstarted : fnp'[k] = "unstarted"
            /\ pc = "thrown" => pc' = "thrown" ]_vars
  /\ [](pc = "thrown" =>
          /\ \A k \in InFlight : ENABLED (FnFulfil(k) \/ FnReject(k))
          /\ \A k \in DOMAIN prom :
               /\ (prom[k] = "pending" /\ fnp[k] \in {"fulfilled", "rejected"})
                    => ENABLED ThenJob(k)
               /\ prom[k] = "then" => ENABLED FinallyJob(k)
               /\ prom[k] = "finally" => ENABLED ChainSettle(k))

\* C29 witness: parallelLimit has thrown on its only failed transform with an
\* input never started, and a transform that was in flight when the race
\* rejected has since fulfilled and stored its result.
C29_Witness ==
  /\ pc = "thrown"
  /\ Unstarted # {}
  /\ Cardinality(Failed) = 1
  /\ \E a, b \in DOMAIN settled :
       /\ a < b
       /\ fnp[settled[a]] = "rejected"
       /\ fnp[settled[b]] = "fulfilled"
       /\ results[settled[b]] = fnval[settled[b]]

\* ------------------------------------------------------------------------
\* Termination of the batches (SpecBatches)
\* ------------------------------------------------------------------------
Called == pc \notin {"idle", "returned", "thrown"}

\* C30: when every started transform eventually settles, a call of
\* parallelLimit eventually returns or throws, whatever the list and the
\* limit; when it returns and no transform failed, every input was started;
\* and a call of fetchAllFeeds or of fetchAllArticles eventually returns.
C30_BatchesTerminate ==
  /\ Called ~> (pc \in {"returned", "thrown"})
  /\ (Called /\ kind \in {"feeds", "articles"}) ~> (pc = "returned")
  /\ [](pc = "returned" /\ Failed = {} => Unstarted = {})

\* C30 witness: a call on three inputs with limit 1, which waited at the race
\* before each later start, has returned with every transform fulfilled.
C30_Witness ==
  /\ kind = "generic"
  /\ pc = "returned"
  /\ Len(items) = 3
  /\ limit = 1
  /\ AllSucceeded
  /\ settled = <<1, 2, 3>>

====
